---------------------------- MODULE Spec2Model ----------------------------
(***************************************************************************)
(* Model of the MQTT ingest service (roles/systems_one_ingest/.../mqtt_ingest). *)
(*                                                                         *)
(*   SpecConn        the broker connection manager (mqtt_client.py): the   *)
(*                   caller's thread running connect / subscribe /         *)
(*                   disconnect statement by statement against the client  *)
(*                   library's network thread running the callbacks.       *)
(*   SpecResolver    the device identity resolver (device_store.py): two   *)
(*                   writers running upsert_device statement by statement  *)
(*                   over dbo.devices, with transient statement failures.  *)
(*   SpecStatus      the status store (device_status_store.py) fed with    *)
(*                   decoded events, one call per step.                    *)
(*   SpecStatistics  the statistics store (device_statistics_store.py) fed *)
(*                   with decoded events, one call per step.               *)
(*   SpecDispatch    the message callback (_on_message) of a connected     *)
(*                   connector: decode, resolve the device, call the       *)
(*                   signal stores of the subtype, log the event.          *)
(*   SpecStores      the four signal stores, each handed events of every   *)
(*                   subtype for either device, one call per step.         *)
(*   SpecNormalizeDrive  _normalize_drive applied to short strings.        *)
(*   SpecDecoder     build_event (ingest_models.py) applied once to a      *)
(*                   message whose topic is any short list of segments.    *)
(*   SpecHandles     the database handles of the five stores: _get_conn,   *)
(*                   close(), connections breaking, the shutdown.          *)
(*   SpecLock        subscribe() against _on_connect around the lock of    *)
(*                   the desired subscriptions, weakly fair.               *)
(*   SpecShutdown    the finally block of main(): disconnect, then the     *)
(*                   close() of every store, while messages arrive.        *)
(*   SpecTimestamp   the status store fed with status events that carry    *)
(*                   ts_ms or leave it out, at two readings of the clock.  *)
(*   SpecGating      the message callback of a connector built with all,   *)
(*                   some or none of its optional stores.                  *)
(*                                                                         *)
(* Strings that the code trims, splits or case-folds are sequences of      *)
(* one-character strings, so that strip(), split() and lower() are         *)
(* computed, not assumed.  None is NoRc / NoneInt / NoneStr / <<>>.        *)
(***************************************************************************)
EXTENDS Integers, Sequences, FiniteSets, TLC

VARIABLES
    \* ---- MQTTConnector fields (mqtt_client.py) ----
    connected_event,    \* self._connected_event (threading.Event flag)
    connect_rc,         \* self._connect_rc (NoRc stands for None)
    desired,            \* self._desired_subscriptions: topic -> qos
    \* ---- the caller's thread ----
    callerpc,           \* statement the caller's thread is at
    callerop,           \* public method the caller is inside ("none" when outside)
    woken,              \* Event.wait: set() was called since the wait began
    rc_local,           \* local rc of connect() (line 133)
    items_caller,       \* local items of _subscribe_desired_subscriptions (caller)
    issued,             \* the SUBSCRIBEs the last subscribe() call handed to the client
    sub_call,           \* arguments of the last subscribe() call (<<>>: none yet)
    outcome,            \* how the last connect() ended: none / returned / raised kinds
    \* ---- the client library (paho) and its network thread ----
    loop,               \* "stopped" / "running": loop_start .. loop_stop
    link,               \* "none" / "tcp" (CONNECT sent) / "session" (CONNACK 0)
    disconnecting,      \* client.disconnect() was called since connect_async
    disc_queued,        \* a DISCONNECT packet waits to be written
    netpc,              \* statement the network thread is at inside a callback
    cb_rc,              \* rc argument of the running _on_connect
    items_net,          \* local items of _subscribe_desired_subscriptions (callback)
    sessions,           \* number of connections the library opened so far
    broker,             \* subscriptions the broker holds for the current session
    \* ---- the database (dbo.devices) and its clock ----
    devices,            \* rows of dbo.devices in insertion order
    next_device_id,     \* next value of the identity column dbo.devices.id
    db_clock,           \* SYSUTCDATETIME(): advances with every write statement
    db_faults,          \* database statements that failed for a transient reason
    \* ---- writers running DeviceStore.ensure_from_event (device_store.py) ----
    wpc,                \* per writer: statement of upsert_device it is at
    wargs,              \* per writer: serial_number, customer, location, machine_name
    wrow,               \* per writer: local row (<<>> stands for None)
    winsert_failed,     \* per writer: the INSERT of this call raised
    wexc,               \* per writer: statement whose exception left the call
    wres,               \* per writer: DeviceUpsertResult of this call (<<>> none)
    wlast,              \* per writer: arguments and result of its previous call
    calls,              \* ensure_from_event calls made so far
    wreturns,           \* the upsert_device calls that ended, in order: writer, serial and outcome
    \* ---- DeviceStatusStore (device_status_store.py) over dbo.device_status ----
    device_status,      \* rows of dbo.device_status in insertion order
    next_status_id,     \* next value of the identity column dbo.device_status.id
    status_res,         \* outcome of the last ensure_from_event: none/skipped/inserted/updated/raised
    status_log,         \* the status packets written so far, in order: what was written, and the
                        \* event's ts_ms and the wall clock reading it was written with
    \* ---- DeviceOsStatusStore (device_os_status_store.py) over dbo.device_os_status ----
    device_os_status,   \* rows of dbo.device_os_status in insertion order
    next_os_id,         \* next value of the identity column dbo.device_os_status.id
    \* ---- DeviceStorageStatusStore over dbo.device_storage_status ----
    device_storage_status,  \* rows of dbo.device_storage_status in insertion order
    next_storage_id,    \* next value of the identity column dbo.device_storage_status.id
    \* ---- DeviceStatisticsStore (device_statistics_store.py) over dbo.device_statistics ----
    device_statistics,  \* rows of dbo.device_statistics in insertion order
    next_statistics_id, \* next value of the identity column dbo.device_statistics.id
    stats_res,          \* outcome of the last insert_from_event: none/skipped/inserted/raised
    stats_log,          \* the packets the store accepted so far, in order, inserted or not
    \* ---- calls made to a signal store outside the dispatch ----
    store_call,         \* the last such call: n, store, device_id, event, fault, res, ret (<<>>: none)
    \* ---- _normalize_drive called on its own ----
    norm_value,         \* the value it was last handed
    norm_result,        \* what it returned for it (NoneStr stands for None)
    \* ---- build_event (ingest_models.py) called on its own ----
    decoder_msg,        \* the message it was handed (<<>>: not called yet)
    decoder_event,      \* the event it returned for it (<<>> stands for None)
    \* ---- the database handles of the five stores (_get_conn, close) ----
    db_handles,         \* the handles MSSQLConnector.connect returned so far: who asked, status
    store_conn,         \* per store: self._conn as an index into db_handles (0 stands for None)
    conn_call,          \* the last store operation that called _get_conn (<<>>: none)
    stopped,            \* main() has run its finally block
    \* ---- the subscriptions mutex (mqtt_client.py self._subscriptions_lock) ----
    lock_owner,         \* thread holding it: "caller", "net" or "none"
    lk_pc,              \* per thread: statement of subscribe / _on_connect it is at
    lk_calls,           \* per thread: calls of subscribe / _on_connect begun so far
    lk_pending,         \* subscribe(): normalized topics still to record, and the qos
    \* ---- the stores the connector was built with ----
    configured,         \* names of the stores that are not None
    \* ---- the dispatch (mqtt_client.py _on_message) ----
    dpc,                \* statement of _on_message the network thread is at
    last_event,         \* the event of the last message (<<>>: none was built)
    device_result,      \* device_id the resolver gave for it (NoneInt: no device_result)
    invoked,            \* stores called for the last message, in order, with how each ended
    raised_in,          \* stores whose call raised during the last message
    logged,             \* log line written for the last message ("nothing": none)
    cb_outcome,         \* how the last _on_message ended: none / returned / raised
    delivered,          \* messages handed to _on_message so far
    unmatched_lines     \* "[?] topic=..." lines logged so far, one per message dropped

connVars == <<connected_event, connect_rc, desired, callerpc, callerop, woken,
              rc_local, items_caller, issued, sub_call, outcome, loop, link,
              disconnecting,
              disc_queued, netpc, cb_rc, items_net, sessions, broker>>

connButLoop == <<connected_event, connect_rc, desired, callerpc, callerop, woken,
                 rc_local, items_caller, issued, sub_call, outcome, link,
                 disconnecting,
                 disc_queued, netpc, cb_rc, items_net, sessions, broker>>

writerVars == <<wpc, wargs, wrow, winsert_failed, wexc, wres, wlast, calls, wreturns>>

resolverVars == <<devices, next_device_id, db_clock, db_faults, writerVars>>

statusVars == <<device_status, next_status_id, status_res, status_log>>

osVars == <<device_os_status, next_os_id>>

storageVars == <<device_storage_status, next_storage_id>>

statisticsVars == <<device_statistics, next_statistics_id, stats_res, stats_log>>

dispatchVars == <<dpc, last_event, device_result, invoked, raised_in, logged, cb_outcome,
                  delivered, unmatched_lines>>

normVars == <<norm_value, norm_result>>

decoderVars == <<decoder_msg, decoder_event>>

handleVars == <<db_handles, store_conn, conn_call, stopped>>

lockVars == <<lock_owner, lk_pc, lk_calls, lk_pending>>

signalVars == <<statusVars, osVars, storageVars, statisticsVars, store_call, normVars,
                decoderVars, handleVars, lockVars, configured>>

\* everything outside the connection manager
storeVars == <<resolverVars, signalVars, dispatchVars>>

vars == <<connVars, storeVars>>

(***************************************************************************)
(* Strings as character sequences.                                         *)
(***************************************************************************)
IsSpace(c) == c = " "

RECURSIVE LStrip(_)
LStrip(s) == IF s # <<>> /\ IsSpace(Head(s)) THEN LStrip(Tail(s)) ELSE s

RECURSIVE RStrip(_)
RStrip(s) ==
    IF s # <<>> /\ IsSpace(s[Len(s)]) THEN RStrip(SubSeq(s, 1, Len(s) - 1)) ELSE s

\* str.strip()
Strip(s) == RStrip(LStrip(s))

(***************************************************************************)
(* Bounds and input alphabets of the connection manager.                   *)
(***************************************************************************)
MaxSessions == 2

NoRc == -1

\* CONNACK return codes the broker may answer: 0 success, 5 not authorised.
ConnackCodes == {0, 5}

TopicA == <<"a">>
TopicB == <<"b">>

\* topics arguments of subscribe(): a str is the one-element list.
TopicArgs ==
    { <<TopicA>>, <<TopicB>>, << <<" ", "a", " ">>, TopicB >>,
      << <<" ">> >>, << <<>>, TopicA >>, <<>> }

\* qos arguments of subscribe().
QosArgs == {-1, 1, 3}

EmptyDict == [t \in {} |-> 0]

\* Variant of DictPut in which the first value stored for a key stays.
DictPut_KeepFirst(d, k, v) ==
    [t \in (DOMAIN d) \cup {k} |-> IF t \in DOMAIN d THEN d[t] ELSE v]

\* dict update d[k] = v
DictPut(d, k, v) == [t \in (DOMAIN d) \cup {k} |-> IF t = k THEN v ELSE d[t]]


\* subscribe() lines 148-153: a str becomes a one-element list; every topic is
\* stripped and the empty ones are dropped.
RECURSIVE NormalizeTopics(_)
NormalizeTopics(topics) ==
    IF topics = <<>> THEN <<>>
    ELSE LET t == Head(topics)
             rest == NormalizeTopics(Tail(topics))
         IN  IF t # <<>> /\ Strip(t) # <<>> THEN <<Strip(t)>> \o rest ELSE rest

\* Variant of ClampQos that stores the qos as requested.
ClampQos_Unclamped(qos) == qos

\* subscribe() lines 157-158: qos clamped into 0..2.
ClampQos(qos) == IF qos < 0 THEN 0 ELSE IF qos > 2 THEN 2 ELSE qos

\* subscribe() lines 160-163: for topic in normalized_topics: desired[topic] = qos
RECURSIVE RecordDesired(_, _, _)
RecordDesired(d, topics, qos) ==
    IF topics = <<>> THEN d
    ELSE RecordDesired(DictPut(d, Head(topics), qos), Tail(topics), qos)

\* The broker's view after the SUBSCRIBE packets of items: the last SUBSCRIBE of a
\* topic decides its granted qos.  A SUBSCRIBE handed to the client while no
\* session is established reaches no session (MQTT_ERR_NO_CONN, or dropped).
SendSubscribes(b, items) ==
    IF link = "session"
    THEN [t \in (DOMAIN b) \cup (DOMAIN items) |->
              IF t \in DOMAIN items THEN items[t] ELSE b[t]]
    ELSE b

(***************************************************************************)
(* The caller's thread.                                                    *)
(***************************************************************************)
callerLocals == <<rc_local, items_caller, issued, sub_call>>
netVars == <<loop, link, disconnecting, disc_queued, netpc, cb_rc, items_net,
             sessions, broker>>

\* connect() lines 108-121: clear the event, forget rc, connect_async, loop_start.
Connect_Begin ==
    /\ callerpc = "idle"
    /\ loop = "stopped"
    /\ connected_event' = FALSE
    /\ connect_rc' = NoRc
    /\ disconnecting' = FALSE
    /\ loop' = "running"
    /\ woken' = FALSE
    /\ outcome' = "none"
    /\ callerop' = "connect"
    /\ callerpc' = "wait"
    /\ UNCHANGED <<desired, callerLocals, link, disc_queued, netpc, cb_rc,
                   items_net, sessions, broker>>
    /\ UNCHANGED storeVars

\* connect() line 123: Event.wait returns True once set() was called.
Connect_WaitSignalled ==
    /\ callerpc = "wait"
    /\ woken
    /\ callerpc' = "chk_none"
    /\ UNCHANGED <<connected_event, connect_rc, desired, callerop, woken,
                   callerLocals, outcome, netVars>>
    /\ UNCHANGED storeVars

\* connect() lines 123-124: the wait times out; disconnect() is called next.
Connect_WaitTimeout ==
    /\ callerpc = "wait"
    /\ (~woken \/ ~connected_event)
    /\ callerpc' = "to_disc1"
    /\ UNCHANGED <<connected_event, connect_rc, desired, callerop, woken,
                   callerLocals, outcome, netVars>>
    /\ UNCHANGED storeVars

\* connect() line 127: if self._connect_rc is None
Connect_CheckNone ==
    /\ callerpc = "chk_none"
    /\ callerpc' = IF connect_rc = NoRc THEN "un_disc1" ELSE "chk_rc"
    /\ UNCHANGED <<connected_event, connect_rc, desired, callerop, woken,
                   callerLocals, outcome, netVars>>
    /\ UNCHANGED storeVars

\* Variant of Connect_CheckRc that returns normally whatever the code.
Connect_CheckRc_AnyRc ==
    /\ callerpc = "chk_rc"
    /\ callerpc' = "idle"
    /\ callerop' = "none"
    /\ outcome' = "returned"
    /\ UNCHANGED <<connected_event, connect_rc, desired, woken, callerLocals,
                   netVars>>
    /\ UNCHANGED storeVars

\* connect() lines 131, 137: if self._connect_rc != 0 ... else return normally.
Connect_CheckRc ==
    /\ callerpc = "chk_rc"
    /\ IF connect_rc # 0
       THEN /\ callerpc' = "rf_read"
            /\ UNCHANGED <<callerop, outcome>>
       ELSE /\ callerpc' = "idle"
            /\ callerop' = "none"
            /\ outcome' = "returned"
    /\ UNCHANGED <<connected_event, connect_rc, desired, woken, callerLocals,
                   netVars>>
    /\ UNCHANGED storeVars

\* connect() line 133: rc = self._connect_rc
Connect_ReadRc ==
    /\ callerpc = "rf_read"
    /\ rc_local' = connect_rc
    /\ callerpc' = "rf_disc1"
    /\ UNCHANGED <<connected_event, connect_rc, desired, callerop, woken,
                   items_caller, issued, sub_call, outcome, netVars>>
    /\ UNCHANGED storeVars

\* The public disconnect() call (main.py lines 72, 114).
Disconnect_Call ==
    /\ callerpc = "idle"
    /\ callerop' = "disconnect"
    /\ callerpc' = "d_disc1"
    /\ UNCHANGED <<connected_event, connect_rc, desired, woken, callerLocals,
                   outcome, netVars>>
    /\ UNCHANGED storeVars

AfterClientDisconnect(pc) ==
    CASE pc = "to_disc1" -> "to_disc2"
      [] pc = "un_disc1" -> "un_disc2"
      [] pc = "rf_disc1" -> "rf_disc2"
      [] OTHER -> "d_disc2"

\* disconnect() line 187: client.disconnect() marks the client as disconnecting
\* and, when a socket is open, queues the DISCONNECT packet.
Disconnect_ClientDisconnect ==
    /\ callerpc \in {"to_disc1", "un_disc1", "rf_disc1", "d_disc1"}
    /\ disconnecting' = TRUE
    /\ disc_queued' = (loop = "running" /\ link # "none")
    /\ callerpc' = AfterClientDisconnect(callerpc)
    /\ UNCHANGED <<connected_event, connect_rc, desired, callerop, woken,
                   callerLocals, outcome, loop, link, netpc, cb_rc, items_net,
                   sessions, broker>>
    /\ UNCHANGED storeVars

\* connect() lines 125, 129, 135: the error raised after disconnect() returned.
RaisedBy(pc) ==
    CASE pc = "to_disc2" -> "timeout"
      [] pc = "un_disc2" -> "unknown"
      [] pc = "rf_disc2" -> "refused"
      [] OTHER -> outcome

\* disconnect() line 191: client.loop_stop() joins the network thread, which ends
\* once it is outside a callback and has written what was queued (a thread that
\* has ended already is joined at once).
Disconnect_LoopStop ==
    /\ callerpc \in {"to_disc2", "un_disc2", "rf_disc2", "d_disc2"}
    /\ (loop # "running" \/ (netpc = "idle" /\ dpc = "idle" /\ ~disc_queued))
    /\ loop' = "stopped"
    /\ outcome' = RaisedBy(callerpc)
    /\ callerop' = "none"
    /\ callerpc' = "idle"
    /\ UNCHANGED <<connected_event, connect_rc, desired, woken, callerLocals,
                   link, disconnecting, disc_queued, netpc, cb_rc, items_net,
                   sessions, broker>>
    /\ UNCHANGED storeVars

\* Variant of Subscribe_Record that only queues: the topics are recorded and the
\* call returns without looking at the connection state.
Subscribe_Record_QueueOnly(topics, qos) ==
    /\ callerpc = "idle"
    /\ desired' = RecordDesired(desired, NormalizeTopics(topics), ClampQos(qos))
    /\ sub_call' = <<[topics |-> topics, qos |-> qos]>>
    /\ issued' = EmptyDict
    /\ UNCHANGED <<connected_event, connect_rc, woken, callerpc, callerop,
                   rc_local, items_caller, outcome, netVars>>
    /\ UNCHANGED storeVars

\* subscribe() lines 148-163: normalise, clamp, and record under the lock.
Subscribe_Record(topics, qos) ==
    /\ callerpc = "idle"
    /\ LET normalized_topics == NormalizeTopics(topics)
       IN  IF normalized_topics = <<>>
           THEN UNCHANGED <<desired, callerpc, callerop>>
           ELSE /\ desired' = RecordDesired(desired, normalized_topics, ClampQos(qos))
                /\ callerop' = "subscribe"
                /\ callerpc' = "s_chk_event"
    /\ sub_call' = <<[topics |-> topics, qos |-> qos]>>
    /\ issued' = EmptyDict
    /\ UNCHANGED <<connected_event, connect_rc, woken, rc_local, items_caller,
                   outcome, netVars>>
    /\ UNCHANGED storeVars

\* subscribe() line 166, left operand: self._connected_event.is_set()
Subscribe_CheckEvent ==
    /\ callerpc = "s_chk_event"
    /\ callerpc' = IF connected_event THEN "s_chk_rc" ELSE "idle"
    /\ callerop' = IF connected_event THEN callerop ELSE "none"
    /\ UNCHANGED <<connected_event, connect_rc, desired, woken, callerLocals,
                   outcome, netVars>>
    /\ UNCHANGED storeVars

\* Variant of Subscribe_CheckRc that goes on to subscribe whatever the stored code.
Subscribe_CheckRc_Ignored ==
    /\ callerpc = "s_chk_rc"
    /\ callerpc' = "s_snap"
    /\ UNCHANGED <<connected_event, connect_rc, desired, callerop, woken,
                   callerLocals, outcome, netVars>>
    /\ UNCHANGED storeVars

\* subscribe() line 166, right operand: self._connect_rc == 0
Subscribe_CheckRc ==
    /\ callerpc = "s_chk_rc"
    /\ callerpc' = IF connect_rc = 0 THEN "s_snap" ELSE "idle"
    /\ callerop' = IF connect_rc = 0 THEN callerop ELSE "none"
    /\ UNCHANGED <<connected_event, connect_rc, desired, woken, callerLocals,
                   outcome, netVars>>
    /\ UNCHANGED storeVars

\* Variant of Subscribe_Snapshot that takes the topics of this call only.
Subscribe_Snapshot_OwnTopics ==
    /\ callerpc = "s_snap"
    /\ items_caller' = [t \in {u \in DOMAIN desired :
                                  \E i \in 1..Len(NormalizeTopics(sub_call[1].topics)) :
                                      NormalizeTopics(sub_call[1].topics)[i] = u}
                           |-> desired[t]]
    /\ callerpc' = "s_issue"
    /\ UNCHANGED <<connected_event, connect_rc, desired, callerop, woken, rc_local,
                   issued, sub_call, outcome, netVars>>
    /\ UNCHANGED storeVars

\* _subscribe_desired_subscriptions lines 170-174 on the caller's thread.
Subscribe_Snapshot ==
    /\ callerpc = "s_snap"
    /\ items_caller' = desired
    /\ callerpc' = IF DOMAIN desired = {} THEN "idle" ELSE "s_issue"
    /\ callerop' = IF DOMAIN desired = {} THEN "none" ELSE callerop
    /\ UNCHANGED <<connected_event, connect_rc, desired, woken, rc_local, issued, sub_call,
                   outcome, netVars>>
    /\ UNCHANGED storeVars

\* _subscribe_desired_subscriptions lines 176-183 on the caller's thread.
Subscribe_Issue ==
    /\ callerpc = "s_issue"
    /\ broker' = SendSubscribes(broker, items_caller)
    /\ items_caller' = EmptyDict
    /\ issued' = items_caller
    /\ callerop' = "none"
    /\ callerpc' = "idle"
    /\ UNCHANGED <<connected_event, connect_rc, desired, woken, rc_local, sub_call,
                   outcome, loop, link, disconnecting, disc_queued, netpc, cb_rc,
                   items_net, sessions>>
    /\ UNCHANGED storeVars

(***************************************************************************)
(* The client library's network thread and the callbacks it runs.          *)
(***************************************************************************)
callerVars == <<callerpc, callerop, rc_local, items_caller, issued, sub_call, outcome>>

\* The library opens a connection and sends CONNECT: the first one after
\* connect_async, later ones on its own after a loss (reconnect_delay_set).
Net_Open ==
    /\ loop = "running"
    /\ netpc = "idle"
    /\ link = "none"
    /\ ~disconnecting
    /\ sessions < MaxSessions
    /\ link' = "tcp"
    /\ sessions' = sessions + 1
    /\ UNCHANGED <<connected_event, connect_rc, desired, woken, callerVars,
                   loop, disconnecting, disc_queued, netpc, cb_rc, items_net,
                   broker>>
    /\ UNCHANGED storeVars

\* _on_connect lines 203-209: a CONNACK arrived; self._connect_rc = int(rc).
OnConnect_SetRc(rc) ==
    /\ loop = "running"
    /\ netpc = "idle"
    /\ link = "tcp"
    /\ connect_rc' = rc
    /\ cb_rc' = rc
    /\ link' = IF rc = 0 THEN "session" ELSE "tcp"
    /\ broker' = EmptyDict
    /\ netpc' = "oc_set"
    /\ UNCHANGED <<connected_event, desired, woken, callerVars, loop,
                   disconnecting, disc_queued, items_net, sessions>>
    /\ UNCHANGED storeVars

\* Variant of OnConnect_SetEvent that resubscribes on the first connection only.
OnConnect_SetEvent_FirstOnly ==
    /\ netpc = "oc_set"
    /\ connected_event' = TRUE
    /\ woken' = (woken \/ callerpc = "wait")
    /\ netpc' = IF cb_rc # 0 THEN "oc_refused"
                ELSE IF sessions <= 1 THEN "oc_snap" ELSE "idle"
    /\ UNCHANGED <<connect_rc, desired, callerVars, loop, link, disconnecting,
                   disc_queued, cb_rc, items_net, sessions, broker>>
    /\ UNCHANGED storeVars

\* _on_connect lines 210-212: self._connected_event.set(); if int(rc) == 0
OnConnect_SetEvent ==
    /\ netpc = "oc_set"
    /\ connected_event' = TRUE
    /\ woken' = (woken \/ callerpc = "wait")
    /\ netpc' = IF cb_rc = 0 THEN "oc_snap" ELSE "oc_refused"
    /\ UNCHANGED <<connect_rc, desired, callerVars, loop, link, disconnecting,
                   disc_queued, cb_rc, items_net, sessions, broker>>
    /\ UNCHANGED storeVars

\* _subscribe_desired_subscriptions lines 170-174 inside _on_connect (line 214).
OnConnect_Snapshot ==
    /\ netpc = "oc_snap"
    /\ items_net' = desired
    /\ netpc' = IF DOMAIN desired = {} THEN "idle" ELSE "oc_issue"
    /\ UNCHANGED <<connected_event, connect_rc, desired, woken, callerVars,
                   loop, link, disconnecting, disc_queued, cb_rc, sessions,
                   broker>>
    /\ UNCHANGED storeVars

\* _subscribe_desired_subscriptions lines 176-183 inside _on_connect.
OnConnect_Issue ==
    /\ netpc = "oc_issue"
    /\ broker' = SendSubscribes(broker, items_net)
    /\ items_net' = EmptyDict
    /\ netpc' = "idle"
    /\ UNCHANGED <<connected_event, connect_rc, desired, woken, callerVars,
                   loop, link, disconnecting, disc_queued, cb_rc, sessions>>
    /\ UNCHANGED storeVars

\* After _on_connect returned for a refused CONNACK the library closes the
\* socket and calls on_disconnect.
Net_RefusedClose ==
    /\ netpc = "oc_refused"
    /\ link' = "none"
    /\ disc_queued' = FALSE
    /\ netpc' = "od"
    /\ UNCHANGED <<connected_event, connect_rc, desired, woken, callerVars,
                   loop, disconnecting, cb_rc, items_net, sessions, broker>>
    /\ UNCHANGED storeVars

\* The connection is lost (broker or network); the library calls on_disconnect.
Net_Lost ==
    /\ loop = "running"
    /\ netpc = "idle"
    /\ link \in {"tcp", "session"}
    /\ link' = "none"
    /\ broker' = EmptyDict
    /\ disc_queued' = FALSE
    /\ netpc' = "od"
    /\ UNCHANGED <<connected_event, connect_rc, desired, woken, callerVars,
                   loop, disconnecting, cb_rc, items_net, sessions>>
    /\ UNCHANGED storeVars

\* The queued DISCONNECT is written; the library closes the socket and calls
\* on_disconnect.
Net_SendDisconnect ==
    /\ loop = "running"
    /\ netpc = "idle"
    /\ dpc = "idle"
    /\ disc_queued
    /\ link' = "none"
    /\ broker' = EmptyDict
    /\ disc_queued' = FALSE
    /\ netpc' = "od"
    /\ UNCHANGED <<connected_event, connect_rc, desired, woken, callerVars,
                   loop, disconnecting, cb_rc, items_net, sessions>>
    /\ UNCHANGED storeVars

\* Variant of OnDisconnect that only logs and leaves the event set.
OnDisconnect_LogOnly ==
    /\ netpc = "od"
    /\ netpc' = "idle"
    /\ UNCHANGED <<connected_event, connect_rc, desired, woken, callerVars, loop,
                   link, disconnecting, disc_queued, cb_rc, items_net, sessions,
                   broker>>
    /\ UNCHANGED storeVars

\* _on_disconnect line 224: self._connected_event.clear()
OnDisconnect ==
    /\ netpc = "od"
    /\ connected_event' = FALSE
    /\ netpc' = "idle"
    /\ UNCHANGED <<connect_rc, desired, woken, callerVars, loop, link,
                   disconnecting, disc_queued, cb_rc, items_net, sessions,
                   broker>>
    /\ UNCHANGED storeVars

(***************************************************************************)
(* The device identity resolver (device_store.py) over dbo.devices.        *)
(* Every statement of upsert_device is one step of a writer; statements of *)
(* several writers (ingest processes sharing the database) interleave.     *)
(* The table carries the unique index on serial_number.                    *)
(***************************************************************************)
MaxCalls == 3
MaxFaults == 1

NoneInt == -1

\* None where a str is expected (no string is a one-element sequence of this).
NoneStr == <<"<None>">>

Writers == {1, 2}

SerialS1 == <<"S", "1">>
SerialS2 == <<"S", "2">>

\* serial_number as found by build_event in the payload
SerialArgs == {NoneStr, <<>>, <<" ">>, SerialS1, <<" ", "S", "1">>, SerialS2}

\* (customer, location, machine) as cut from the topic
TopicMeta ==
    { [customer |-> <<"c">>, location |-> <<"l">>, machine |-> <<"m">>],
      [customer |-> <<"c">>, location |-> <<"l", " ">>, machine |-> <<"n">>] }

NoArgs == [serial_number |-> <<>>, customer |-> <<>>, location |-> <<>>,
           machine_name |-> <<>>]

\* value or ""
OrEmpty(v) == IF v = NoneStr THEN <<>> ELSE v

\* _select_by_serial lines 146-152: fetchone() of the rows with that serial.
SelectBySerial(tbl, serial_number) ==
    LET hits == {i \in 1..Len(tbl) : tbl[i].serial_number = serial_number}
    IN  IF hits = {} THEN <<>>
        ELSE <<tbl[CHOOSE i \in hits : \A j \in hits : i <= j]>>

\* Variant of InsertRaises for a table without the unique index.
InsertRaises_NoUniqueIndex(tbl, serial_number, fault) == fault

\* _insert_device lines 163-184: the INSERT raises on a transient failure and on
\* a violation of the unique index on serial_number.
InsertRaises(tbl, serial_number, fault) ==
    fault \/ SelectBySerial(tbl, serial_number) # <<>>

\* _insert_device lines 166-184: the row the INSERT adds.
InsertDevice(tbl, id, a, now) ==
    Append(tbl, [id |-> id,
                 serial_number |-> a.serial_number,
                 customer |-> a.customer,
                 location |-> a.location,
                 machine_name |-> a.machine_name,
                 created_at |-> now,
                 updated_at |-> now])

\* Variant of UpdateDevice whose UPDATE also stamps created_at.
UpdateDevice_RestampCreated(tbl, device_id, a, now) ==
    [i \in 1..Len(tbl) |->
        IF tbl[i].id = device_id
        THEN [tbl[i] EXCEPT !.customer = a.customer,
                            !.location = a.location,
                            !.machine_name = a.machine_name,
                            !.created_at = now,
                            !.updated_at = now]
        ELSE tbl[i]]

\* Variant of UpdateDevice whose UPDATE leaves customer as it is.
UpdateDevice_KeepCustomer(tbl, device_id, a, now) ==
    [i \in 1..Len(tbl) |->
        IF tbl[i].id = device_id
        THEN [tbl[i] EXCEPT !.location = a.location,
                            !.machine_name = a.machine_name,
                            !.updated_at = now]
        ELSE tbl[i]]

\* _update_device lines 195-206: UPDATE ... WHERE id = ?
UpdateDevice(tbl, device_id, a, now) ==
    [i \in 1..Len(tbl) |->
        IF tbl[i].id = device_id
        THEN [tbl[i] EXCEPT !.customer = a.customer,
                            !.location = a.location,
                            !.machine_name = a.machine_name,
                            !.updated_at = now]
        ELSE tbl[i]]

\* A statement may fail for a transient reason while the fault budget lasts.
FaultAllowed(fault) == fault => db_faults < MaxFaults

connAndOthers == <<connVars, signalVars, dispatchVars>>

\* ensure_from_event lines 50-67: no serial, no upsert; else strip the fields
\* and enter upsert_device.
Ensure_Call(w, serial_raw, meta) ==
    /\ wpc[w] = "idle"
    /\ calls < MaxCalls
    /\ calls' = calls + 1
    /\ LET serial == Strip(OrEmpty(serial_raw))
       IN  IF serial = <<>>
           THEN /\ wres' = [wres EXCEPT ![w] = <<>>]
                /\ wlast' = [wlast EXCEPT ![w] = <<>>]
                /\ UNCHANGED <<wpc, wargs, winsert_failed, wexc>>
           ELSE /\ wargs' = [wargs EXCEPT ![w] =
                        [serial_number |-> serial,
                         customer |-> Strip(OrEmpty(meta.customer)),
                         location |-> Strip(OrEmpty(meta.location)),
                         machine_name |-> Strip(OrEmpty(meta.machine))]]
                /\ wpc' = [wpc EXCEPT ![w] = "select"]
                /\ winsert_failed' = [winsert_failed EXCEPT ![w] = FALSE]
                /\ wexc' = [wexc EXCEPT ![w] = "none"]
                /\ wres' = [wres EXCEPT ![w] = <<>>]
                /\ UNCHANGED wlast
    /\ UNCHANGED <<devices, next_device_id, db_clock, db_faults, wrow, wreturns>>
    /\ UNCHANGED connAndOthers

\* upsert_device lines 80-81: row = self._select_by_serial(conn, serial_number)
Upsert_Select(w, fault) ==
    /\ wpc[w] = "select"
    /\ FaultAllowed(fault)
    /\ IF fault
       THEN /\ wpc' = [wpc EXCEPT ![w] = "raised"]
            /\ wexc' = [wexc EXCEPT ![w] = "select"]
            /\ UNCHANGED wrow
       ELSE /\ wrow' = [wrow EXCEPT ![w] = SelectBySerial(devices, wargs[w].serial_number)]
            /\ wpc' = [wpc EXCEPT ![w] = IF wrow'[w] = <<>> THEN "insert" ELSE "update"]
            /\ UNCHANGED wexc
    /\ db_faults' = IF fault THEN db_faults + 1 ELSE db_faults
    /\ UNCHANGED <<devices, next_device_id, db_clock, wargs, winsert_failed,
                   wres, wlast, calls, wreturns>>
    /\ UNCHANGED connAndOthers

\* Variant of Upsert_Insert without the try/except: the INSERT's error leaves
\* upsert_device.
Upsert_Insert_Propagates(w, fault) ==
    /\ wpc[w] = "insert"
    /\ FaultAllowed(fault)
    /\ IF InsertRaises(devices, wargs[w].serial_number, fault)
       THEN /\ winsert_failed' = [winsert_failed EXCEPT ![w] = TRUE]
            /\ wpc' = [wpc EXCEPT ![w] = "raised"]
            /\ wexc' = [wexc EXCEPT ![w] = "insert"]
            /\ UNCHANGED <<devices, next_device_id, wres>>
       ELSE /\ devices' = InsertDevice(devices, next_device_id, wargs[w], db_clock)
            /\ next_device_id' = next_device_id + 1
            /\ wres' = [wres EXCEPT ![w] =
                           <<[device_id |-> next_device_id, created |-> TRUE]>>]
            /\ wpc' = [wpc EXCEPT ![w] = "done"]
            /\ UNCHANGED <<winsert_failed, wexc>>
    /\ db_faults' = IF fault THEN db_faults + 1 ELSE db_faults
    /\ db_clock' = IF devices' # devices THEN db_clock + 1 ELSE db_clock
    /\ UNCHANGED <<wargs, wrow, wlast, calls, wreturns>>
    /\ UNCHANGED connAndOthers

\* upsert_device lines 83-105: try the INSERT; on success return created=True;
\* on any exception log it and fall through to the second select.
Upsert_Insert(w, fault) ==
    /\ wpc[w] = "insert"
    /\ FaultAllowed(fault)
    /\ IF InsertRaises(devices, wargs[w].serial_number, fault)
       THEN /\ winsert_failed' = [winsert_failed EXCEPT ![w] = TRUE]
            /\ wpc' = [wpc EXCEPT ![w] = "reselect"]
            /\ UNCHANGED <<devices, next_device_id, wres>>
       ELSE /\ devices' = InsertDevice(devices, next_device_id, wargs[w], db_clock)
            /\ next_device_id' = next_device_id + 1
            /\ wres' = [wres EXCEPT ![w] =
                           <<[device_id |-> next_device_id, created |-> TRUE]>>]
            /\ wpc' = [wpc EXCEPT ![w] = "done"]
            /\ UNCHANGED winsert_failed
    /\ db_faults' = IF fault THEN db_faults + 1 ELSE db_faults
    /\ db_clock' = IF devices' # devices THEN db_clock + 1 ELSE db_clock
    /\ UNCHANGED <<wargs, wrow, wexc, wlast, calls, wreturns>>
    /\ UNCHANGED connAndOthers

\* upsert_device lines 107-109: select again; with still no row the bare raise
\* (outside any except block) raises RuntimeError.
Upsert_Reselect(w, fault) ==
    /\ wpc[w] = "reselect"
    /\ FaultAllowed(fault)
    /\ IF fault
       THEN /\ wpc' = [wpc EXCEPT ![w] = "raised"]
            /\ wexc' = [wexc EXCEPT ![w] = "reselect"]
            /\ UNCHANGED wrow
       ELSE /\ wrow' = [wrow EXCEPT ![w] = SelectBySerial(devices, wargs[w].serial_number)]
            /\ wpc' = [wpc EXCEPT ![w] = IF wrow'[w] = <<>> THEN "raised" ELSE "update"]
            /\ wexc' = [wexc EXCEPT ![w] = IF wrow'[w] = <<>> THEN "no_row" ELSE wexc[w]]
    /\ db_faults' = IF fault THEN db_faults + 1 ELSE db_faults
    /\ UNCHANGED <<devices, next_device_id, db_clock, wargs, winsert_failed,
                   wres, wlast, calls, wreturns>>
    /\ UNCHANGED connAndOthers

\* Variant of Upsert_Update that reports created=True.
Upsert_Update_ReportsCreated(w, fault) ==
    /\ wpc[w] = "update"
    /\ ~fault
    /\ devices' = UpdateDevice(devices, wrow[w][1].id, wargs[w], db_clock)
    /\ wres' = [wres EXCEPT ![w] =
                   <<[device_id |-> wrow[w][1].id, created |-> TRUE]>>]
    /\ wpc' = [wpc EXCEPT ![w] = "done"]
    /\ db_clock' = db_clock + 1
    /\ UNCHANGED <<next_device_id, db_faults, wargs, wrow,
                   winsert_failed, wexc, wlast, calls, wreturns>>
    /\ UNCHANGED connAndOthers

\* upsert_device lines 111-131: device_id = int(row[0]); UPDATE; created=False.
Upsert_Update(w, fault) ==
    /\ wpc[w] = "update"
    /\ FaultAllowed(fault)
    /\ IF fault
       THEN /\ wpc' = [wpc EXCEPT ![w] = "raised"]
            /\ wexc' = [wexc EXCEPT ![w] = "update"]
            /\ UNCHANGED <<devices, wres>>
       ELSE /\ devices' = UpdateDevice(devices, wrow[w][1].id, wargs[w], db_clock)
            /\ wres' = [wres EXCEPT ![w] =
                           <<[device_id |-> wrow[w][1].id, created |-> FALSE]>>]
            /\ wpc' = [wpc EXCEPT ![w] = "done"]
            /\ UNCHANGED wexc
    /\ db_faults' = IF fault THEN db_faults + 1 ELSE db_faults
    /\ db_clock' = IF fault THEN db_clock ELSE db_clock + 1
    /\ UNCHANGED <<next_device_id, wargs, wrow, winsert_failed, wlast, calls, wreturns>>
    /\ UNCHANGED connAndOthers

\* ensure_from_event returns (or the exception leaves it): the writer is free for
\* its next event.
Ensure_Return(w) ==
    /\ wpc[w] \in {"done", "raised"}
    /\ wlast' = [wlast EXCEPT ![w] =
                    IF wpc[w] = "done"
                    THEN <<[args |-> wargs[w], res |-> wres[w][1]]>>
                    ELSE <<>>]
    /\ wpc' = [wpc EXCEPT ![w] = "idle"]
    /\ wrow' = [wrow EXCEPT ![w] = <<>>]
    /\ wargs' = [wargs EXCEPT ![w] = NoArgs]
    /\ wres' = [wres EXCEPT ![w] = <<>>]
    /\ winsert_failed' = [winsert_failed EXCEPT ![w] = FALSE]
    /\ wexc' = [wexc EXCEPT ![w] = "none"]
    /\ wreturns' = Append(wreturns,
                          [w |-> w,
                           serial_number |-> wargs[w].serial_number,
                           insert_failed |-> winsert_failed[w],
                           outcome |-> IF wpc[w] = "raised" THEN "raised"
                                       ELSE IF wres[w][1].created THEN "created"
                                       ELSE "existing"])
    /\ UNCHANGED <<devices, next_device_id, db_clock, db_faults, calls>>
    /\ UNCHANGED connAndOthers

ResolverInit ==
    /\ devices = <<>>
    /\ next_device_id = 1
    /\ db_clock = 0
    /\ db_faults = 0
    /\ wpc = [w \in Writers |-> "idle"]
    /\ wargs = [w \in Writers |-> NoArgs]
    /\ wrow = [w \in Writers |-> <<>>]
    /\ winsert_failed = [w \in Writers |-> FALSE]
    /\ wexc = [w \in Writers |-> "none"]
    /\ wres = [w \in Writers |-> <<>>]
    /\ wlast = [w \in Writers |-> <<>>]
    /\ calls = 0
    /\ wreturns = <<>>

NextResolver ==
    \/ \E w \in Writers, serial_raw \in SerialArgs, meta \in TopicMeta :
           Ensure_Call(w, serial_raw, meta)
    \/ \E w \in Writers, fault \in BOOLEAN : Upsert_Select(w, fault)
    \/ \E w \in Writers, fault \in BOOLEAN : Upsert_Insert(w, fault)
    \/ \E w \in Writers, fault \in BOOLEAN : Upsert_Reselect(w, fault)
    \/ \E w \in Writers, fault \in BOOLEAN : Upsert_Update(w, fault)
    \/ \E w \in Writers : Ensure_Return(w)

(***************************************************************************)
(* JSON values and the helpers that coerce them.                           *)
(* A JSON value is a record tagged by its Python type.  An object is a     *)
(* record of its keys, except the storage object, whose keys the code      *)
(* iterates and normalises: that one is the sequence of its (drive, info)  *)
(* entries in document order.  Numbers in the inputs are non-negative.     *)
(***************************************************************************)
JNone == [t |-> "none"]
JStr(chars) == [t |-> "str", v |-> chars]
JBool(b) == [t |-> "bool", v |-> b]
JInt(n) == [t |-> "int", v |-> n]
JObj(members) == [t |-> "object", v |-> members]

\* a JSON integer of 2**1024 or more: json.loads yields a Python int that no
\* float can hold
JBigInt == [t |-> "bigint"]

\* the value SafeInt yields for JBigInt
HugeInt == 2147483647

\* isinstance(value, Mapping)
IsMapping(value) == value.t = "object"

\* Mapping.get(key): None for an absent key
Get(obj, key) == IF key \in DOMAIN obj.v THEN obj.v[key] ELSE JNone

UpperCase == <<"A", "B", "C", "D", "E", "F", "G", "H", "I", "J", "K", "L", "M",
               "N", "O", "P", "Q", "R", "S", "T", "U", "V", "W", "X", "Y", "Z">>
LowerCase == <<"a", "b", "c", "d", "e", "f", "g", "h", "i", "j", "k", "l", "m",
               "n", "o", "p", "q", "r", "s", "t", "u", "v", "w", "x", "y", "z">>

LowerChar(c) ==
    IF \E i \in 1..Len(UpperCase) : UpperCase[i] = c
    THEN LowerCase[CHOOSE i \in 1..Len(UpperCase) : UpperCase[i] = c]
    ELSE c

UpperChar(c) ==
    IF \E i \in 1..Len(LowerCase) : LowerCase[i] = c
    THEN UpperCase[CHOOSE i \in 1..Len(LowerCase) : LowerCase[i] = c]
    ELSE c

\* str.lower()
Lower(s) == [i \in 1..Len(s) |-> LowerChar(s[i])]

\* str.upper()
Upper(s) == [i \in 1..Len(s) |-> UpperChar(s[i])]

Digits == <<"0", "1", "2", "3", "4", "5", "6", "7", "8", "9">>

IsDigit(c) == \E i \in 1..Len(Digits) : Digits[i] = c

DigitValue(c) == (CHOOSE i \in 1..Len(Digits) : Digits[i] = c) - 1

\* str(n) of a non-negative int
RECURSIVE NatStr(_)
NatStr(n) == IF n < 10 THEN <<Digits[n + 1]>> ELSE NatStr(n \div 10) \o <<Digits[(n % 10) + 1]>>

\* value of a non-empty string of digits
RECURSIVE DigitsValue(_)
DigitsValue(s) ==
    IF Len(s) = 1 THEN DigitValue(s[1])
    ELSE 10 * DigitsValue(SubSeq(s, 1, Len(s) - 1)) + DigitValue(s[Len(s)])

\* int(str) inside try/except: surrounding whitespace and a sign are accepted,
\* anything else but digits is a ValueError (None here).
ParseInt(chars) ==
    LET s == Strip(chars)
        signed == Len(s) > 0 /\ s[1] \in {"+", "-"}
        body == IF signed THEN SubSeq(s, 2, Len(s)) ELSE s
    IN  IF body = <<>> \/ \E i \in 1..Len(body) : ~IsDigit(body[i]) THEN NoneInt
        ELSE IF signed /\ s[1] = "-" THEN 0 - DigitsValue(body)
        ELSE DigitsValue(body)

\* str(value) of a JSON scalar
PyStr(value) ==
    CASE value.t = "str" -> value.v
      [] value.t = "bool" -> IF value.v THEN <<"T", "r", "u", "e">> ELSE <<"F", "a", "l", "s", "e">>
      [] value.t = "int" -> IF value.v < 0 THEN <<"-">> \o NatStr(0 - value.v) ELSE NatStr(value.v)
      [] OTHER -> NoneStr

\* _safe_str (ingest_models.py lines 176-184, repeated in the stores)
SafeStr(value) == IF value.t = "none" THEN NoneStr ELSE PyStr(value)

\* _safe_int (ingest_models.py lines 187-197, device_statistics_store.py 206-216)
SafeInt(value) ==
    CASE value.t = "none" -> NoneInt
      [] value.t = "bool" -> IF value.v THEN 1 ELSE 0
      [] value.t = "int" -> value.v
      [] value.t = "bigint" -> HugeInt
      [] value.t = "str" -> ParseInt(value.v)
      [] OTHER -> NoneInt

\* Variant of SafeIntOrZero that passes None on.
SafeIntOrZero_Null(value) == SafeInt(value)

\* _safe_int_or_zero (device_statistics_store.py lines 219-221)
SafeIntOrZero(value) ==
    LET parsed == SafeInt(value) IN IF parsed = NoneInt THEN 0 ELSE parsed

\* _safe_float (ingest_models.py lines 200-210, device_storage_status_store.py):
\* float(value) of an int stands outside the try, so an int too large for a
\* float raises OverflowError out of the helper.  Floats are kept as integers.
SafeFloat(value) ==
    CASE value.t = "none" -> [raised |-> FALSE, v |-> NoneInt]
      [] value.t = "bool" -> [raised |-> FALSE, v |-> IF value.v THEN 1 ELSE 0]
      [] value.t = "int" -> [raised |-> FALSE, v |-> value.v]
      [] value.t = "bigint" -> [raised |-> TRUE, v |-> NoneInt]
      [] value.t = "str" -> [raised |-> FALSE, v |-> ParseInt(value.v)]
      [] OTHER -> [raised |-> FALSE, v |-> NoneInt]

(***************************************************************************)
(* The decoder (ingest_models.py): topic and payload bytes to an event.    *)
(***************************************************************************)
\* str.strip("/")
RECURSIVE LStripSlash(_)
LStripSlash(s) == IF s # <<>> /\ s[1] = "/" THEN LStripSlash(Tail(s)) ELSE s

RECURSIVE RStripSlash(_)
RStripSlash(s) ==
    IF s # <<>> /\ s[Len(s)] = "/" THEN RStripSlash(SubSeq(s, 1, Len(s) - 1)) ELSE s

\* str.split("/")
RECURSIVE SplitSlash(_)
SplitSlash(s) ==
    IF \A i \in 1..Len(s) : s[i] # "/" THEN <<s>>
    ELSE LET i == CHOOSE i \in 1..Len(s) : s[i] = "/" /\ \A j \in 1..(i - 1) : s[j] # "/"
         IN  <<SubSeq(s, 1, i - 1)>> \o SplitSlash(SubSeq(s, i + 1, Len(s)))

\* "/".join(parts)
RECURSIVE JoinSlash(_)
JoinSlash(parts) ==
    IF Len(parts) = 1 THEN parts[1]
    ELSE parts[1] \o <<"/">> \o JoinSlash(Tail(parts))

\* Variant of ParseTopic that keeps the empty strings split() returns.
ParseTopic_KeepEmpty(topic) ==
    LET parts == SplitSlash(RStripSlash(LStripSlash(topic)))
    IN  IF Len(parts) < 5 THEN <<>>
        ELSE <<[prefix |-> parts[1],
                customer |-> parts[2],
                location |-> parts[3],
                machine |-> parts[4],
                subtype |-> JoinSlash(SubSeq(parts, 5, Len(parts)))]>>

\* Variant of ParseTopic that takes the fifth part alone as the subtype.
ParseTopic_FifthPartOnly(topic) ==
    LET parts == SelectSeq(SplitSlash(RStripSlash(LStripSlash(topic))),
                           LAMBDA p : p # <<>>)
    IN  IF Len(parts) < 5 THEN <<>>
        ELSE <<[prefix |-> parts[1],
                customer |-> parts[2],
                location |-> parts[3],
                machine |-> parts[4],
                subtype |-> parts[5]]>>

\* parse_topic lines 109-122: <<>> stands for None
ParseTopic(topic) ==
    LET parts == SelectSeq(SplitSlash(RStripSlash(LStripSlash(topic))),
                           LAMBDA p : p # <<>>)
    IN  IF Len(parts) < 5 THEN <<>>
        ELSE <<[prefix |-> parts[1],
                customer |-> parts[2],
                location |-> parts[3],
                machine |-> parts[4],
                subtype |-> JoinSlash(SubSeq(parts, 5, Len(parts)))]>>

\* parse_payload lines 125-140 on the bytes of a message: "empty" (no bytes),
\* "garbage" (bytes json.loads rejects) or "json" with the value they encode;
\* only an object is a payload.
ParsePayload(payload_bytes) ==
    IF payload_bytes.enc = "json" /\ IsMapping(payload_bytes.v) THEN payload_bytes.v
    ELSE JNone

\* Variant of BuildEvent that returns None for a body that is no JSON object.
BuildEvent_RejectBody(msg) ==
    LET info == ParseTopic(msg.topic)
        payload == ParsePayload(msg.payload)
    IN  IF info = <<>> \/ ~IsMapping(payload) THEN <<>>
        ELSE <<[prefix |-> info[1].prefix,
                customer |-> info[1].customer,
                location |-> info[1].location,
                machine |-> info[1].machine,
                subtype |-> info[1].subtype,
                serial_number |-> SafeStr(Get(payload, "serial_number")),
                ts_ms |-> SafeInt(Get(payload, "ts")),
                qos |-> msg.qos,
                retain |-> msg.retain,
                payload |-> payload]>>

\* build_event lines 143-173: <<>> stands for None
BuildEvent(msg) ==
    LET info == ParseTopic(msg.topic)
        payload == ParsePayload(msg.payload)
    IN  IF info = <<>> THEN <<>>
        ELSE <<[prefix |-> info[1].prefix,
                customer |-> info[1].customer,
                location |-> info[1].location,
                machine |-> info[1].machine,
                subtype |-> info[1].subtype,
                serial_number |-> IF IsMapping(payload)
                                  THEN SafeStr(Get(payload, "serial_number"))
                                  ELSE NoneStr,
                ts_ms |-> IF IsMapping(payload) THEN SafeInt(Get(payload, "ts"))
                          ELSE NoneInt,
                qos |-> msg.qos,
                retain |-> msg.retain,
                payload |-> payload]>>

\* IngestEvent.to_log_line lines 44-106: which line it formats, and whether
\* formatting raises (the storage line converts used_pct, used_gb and total_gb
\* of every object-valued entry with _safe_float, lines 88-94).
ToLogLine(event) ==
    IF ~IsMapping(event.payload) THEN [raised |-> FALSE, line |-> "unparsed"]
    ELSE IF event.subtype = <<"s", "t", "a", "t", "u", "s">> THEN [raised |-> FALSE, line |-> "status"]
    ELSE IF event.subtype = <<"s", "t", "a", "t", "i", "s", "t", "i", "c", "s">>
    THEN [raised |-> FALSE,
          line |-> IF IsMapping(Get(event.payload, "statistics")) THEN "statistics"
                   ELSE "statistics_invalid"]
    ELSE IF event.subtype = <<"s", "t", "o", "r", "a", "g", "e">>
    THEN LET storage == Get(event.payload, "storage")
         IN  IF ~IsMapping(storage) THEN [raised |-> FALSE, line |-> "storage_invalid"]
             ELSE [raised |-> \E i \in 1..Len(storage.v) :
                                  /\ IsMapping(storage.v[i].info)
                                  /\ \E key \in {"used_pct", "used_gb", "total_gb"} :
                                         SafeFloat(Get(storage.v[i].info, key)).raised,
                   line |-> "storage"]
    ELSE [raised |-> FALSE, line |-> "keys"]

\* Variant of EventTimestamp that takes the event's ts for seconds.
EventTimestamp_Seconds(event, now) ==
    IF event.ts_ms # NoneInt
    THEN [ts_epoch |-> event.ts_ms, ts_datetime |-> event.ts_ms]
    ELSE [ts_epoch |-> now \div 1000, ts_datetime |-> now]

\* _event_timestamp (device_status_store.py lines 237-244, the same function in
\* every store): the event's ts when it has one, else the wall clock now;
\* datetimes are kept in milliseconds.
EventTimestamp(event, now) ==
    IF event.ts_ms # NoneInt
    THEN [ts_epoch |-> event.ts_ms \div 1000, ts_datetime |-> event.ts_ms]
    ELSE [ts_epoch |-> now \div 1000, ts_datetime |-> now]

\* a store call that left the table as it was
Untouched(tbl, next_id, clock, res) ==
    [tbl |-> tbl, next_id |-> next_id, clock |-> clock, res |-> res,
     device_id |-> NoneInt, packet |-> <<>>]

(***************************************************************************)
(* The identity resolver run by one thread without interleaving            *)
(* (device_store.py ensure_from_event, lines 49-131).                      *)
(***************************************************************************)
\* Variant of DeviceStoreCall that tests the serial number before it is stripped.
DeviceStoreCall_Unstripped(tbl, next_id, clock, event, fault) ==
    LET serial == Strip(OrEmpty(event.serial_number))
        a == [serial_number |-> serial,
              customer |-> Strip(OrEmpty(event.customer)),
              location |-> Strip(OrEmpty(event.location)),
              machine_name |-> Strip(OrEmpty(event.machine))]
        row == SelectBySerial(tbl, serial)
    IN  IF OrEmpty(event.serial_number) = <<>>
        THEN Untouched(tbl, next_id, clock, "skipped")
        ELSE IF fault THEN Untouched(tbl, next_id, clock, "raised")
        ELSE IF row = <<>>
        THEN [tbl |-> InsertDevice(tbl, next_id, a, clock),
              next_id |-> next_id + 1,
              clock |-> clock + 1,
              res |-> "inserted",
              device_id |-> next_id,
              packet |-> <<>>]
        ELSE [tbl |-> UpdateDevice(tbl, row[1].id, a, clock),
              next_id |-> next_id,
              clock |-> clock + 1,
              res |-> "updated",
              device_id |-> row[1].id,
              packet |-> <<>>]

\* fault: a statement of the call raises for a transient reason; whichever it
\* is, the exception leaves the call (select: line 80; insert: caught, then the
\* second select finds no row and line 109 raises; update: line 114).
\* Variant of DeviceStoreCall that hands back the id of an INSERT that failed.
DeviceStoreCall_IdOfFailedInsert(tbl, next_id, clock, event, fault) ==
    LET serial == Strip(OrEmpty(event.serial_number))
        a == [serial_number |-> serial,
              customer |-> Strip(OrEmpty(event.customer)),
              location |-> Strip(OrEmpty(event.location)),
              machine_name |-> Strip(OrEmpty(event.machine))]
        row == SelectBySerial(tbl, serial)
    IN  IF serial = <<>> THEN Untouched(tbl, next_id, clock, "skipped")
        ELSE IF row = <<>>
        THEN [tbl |-> IF fault THEN tbl ELSE InsertDevice(tbl, next_id, a, clock),
              next_id |-> IF fault THEN next_id ELSE next_id + 1,
              clock |-> clock + 1,
              res |-> "inserted",
              device_id |-> next_id,
              packet |-> <<>>]
        ELSE IF fault THEN Untouched(tbl, next_id, clock, "raised")
        ELSE [tbl |-> UpdateDevice(tbl, row[1].id, a, clock),
              next_id |-> next_id,
              clock |-> clock + 1,
              res |-> "updated",
              device_id |-> row[1].id,
              packet |-> <<>>]

DeviceStoreCall(tbl, next_id, clock, event, fault) ==
    LET serial == Strip(OrEmpty(event.serial_number))
        a == [serial_number |-> serial,
              customer |-> Strip(OrEmpty(event.customer)),
              location |-> Strip(OrEmpty(event.location)),
              machine_name |-> Strip(OrEmpty(event.machine))]
        row == SelectBySerial(tbl, serial)
    IN  IF serial = <<>> THEN Untouched(tbl, next_id, clock, "skipped")
        ELSE IF fault THEN Untouched(tbl, next_id, clock, "raised")
        ELSE IF row = <<>>
        THEN [tbl |-> InsertDevice(tbl, next_id, a, clock),
              next_id |-> next_id + 1,
              clock |-> clock + 1,
              res |-> "inserted",
              device_id |-> next_id,
              packet |-> <<>>]
        ELSE [tbl |-> UpdateDevice(tbl, row[1].id, a, clock),
              next_id |-> next_id,
              clock |-> clock + 1,
              res |-> "updated",
              device_id |-> row[1].id,
              packet |-> <<>>]

(***************************************************************************)
(* The status store (device_status_store.py) over dbo.device_status.       *)
(***************************************************************************)
\* _normalize_status lines 221-234
NormalizeStatus(value) ==
    IF value.t = "none" THEN NoneStr
    ELSE LET v == Lower(Strip(PyStr(value)))
         IN  IF v \in {<<"o", "n", "l", "i", "n", "e">>, <<"o", "f", "f", "l", "i", "n", "e">>} THEN v ELSE NoneStr

\* _select_by_device_id lines 156-162: fetchone() of the rows of the device.
\* (The OS-version store's lines 145-151 read its table the same way.)
SelectByDeviceId(tbl, device_id) ==
    LET hits == {i \in 1..Len(tbl) : tbl[i].device_id = device_id}
    IN  IF hits = {} THEN <<>>
        ELSE <<tbl[CHOOSE i \in hits : \A j \in hits : i <= j]>>

\* Variant of OfflineSinceOnUpdate that restamps offline_since on every offline
\* packet.
OfflineSinceOnUpdate_Restamp(status, prev_offline_since, ts_datetime) ==
    IF status = <<"o", "f", "f", "l", "i", "n", "e">> THEN ts_datetime ELSE NoneInt

\* upsert_status lines 111-116
OfflineSinceOnUpdate(status, prev_offline_since, ts_datetime) ==
    IF status = <<"o", "f", "f", "l", "i", "n", "e">>
    THEN IF prev_offline_since # NoneInt THEN prev_offline_since ELSE ts_datetime
    ELSE NoneInt

\* Variant of OfflineSinceOnInsert that stamps offline_since whatever the status.
OfflineSinceOnInsert_Always(status, ts_datetime) == ts_datetime

\* upsert_status line 90
OfflineSinceOnInsert(status, ts_datetime) ==
    IF status = <<"o", "f", "f", "l", "i", "n", "e">> THEN ts_datetime ELSE NoneInt

\* Variant of UpsertStatus whose UPDATE leaves a row alone that holds a later
\* event time.
UpsertStatus_NewestWins(tbl, next_id, device_id, status, ts, clock) ==
    LET row == SelectByDeviceId(tbl, device_id)
    IN  IF row = <<>>
        THEN [tbl |-> Append(tbl,
                         [id |-> next_id,
                          device_id |-> device_id,
                          status |-> status,
                          ts_epoch |-> ts.ts_epoch,
                          ts_datetime |-> ts.ts_datetime,
                          offline_since |-> OfflineSinceOnInsert(status, ts.ts_datetime),
                          created_at |-> clock,
                          updated_at |-> clock]),
              created |-> TRUE]
        ELSE [tbl |-> [i \in 1..Len(tbl) |->
                         IF tbl[i].id = row[1].id /\ tbl[i].ts_datetime <= ts.ts_datetime
                         THEN [tbl[i] EXCEPT
                                  !.status = status,
                                  !.ts_epoch = ts.ts_epoch,
                                  !.ts_datetime = ts.ts_datetime,
                                  !.offline_since =
                                      OfflineSinceOnUpdate(status, row[1].offline_since,
                                                           ts.ts_datetime),
                                  !.updated_at = clock]
                         ELSE tbl[i]],
              created |-> FALSE]

\* upsert_status lines 78-141 on the table: insert when the device has no row,
\* else update the row found (UPDATE ... WHERE id = ?).
UpsertStatus(tbl, next_id, device_id, status, ts, clock) ==
    LET row == SelectByDeviceId(tbl, device_id)
    IN  IF row = <<>>
        THEN [tbl |-> Append(tbl,
                         [id |-> next_id,
                          device_id |-> device_id,
                          status |-> status,
                          ts_epoch |-> ts.ts_epoch,
                          ts_datetime |-> ts.ts_datetime,
                          offline_since |-> OfflineSinceOnInsert(status, ts.ts_datetime),
                          created_at |-> clock,
                          updated_at |-> clock]),
              created |-> TRUE]
        ELSE [tbl |-> [i \in 1..Len(tbl) |->
                         IF tbl[i].id = row[1].id
                         THEN [tbl[i] EXCEPT
                                  !.status = status,
                                  !.ts_epoch = ts.ts_epoch,
                                  !.ts_datetime = ts.ts_datetime,
                                  !.offline_since =
                                      OfflineSinceOnUpdate(status, row[1].offline_since,
                                                           ts.ts_datetime),
                                  !.updated_at = clock]
                         ELSE tbl[i]],
              created |-> FALSE]

\* Variant of StatusAccepts that takes the device_status of an event of any
\* subtype.
StatusAccepts_AnySubtype(event) ==
    /\ IsMapping(event.payload)
    /\ NormalizeStatus(Get(event.payload, "device_status")) # NoneStr

\* ensure_from_event lines 57-67: the packets the store acts on.
StatusAccepts(event) ==
    /\ event.subtype = <<"s", "t", "a", "t", "u", "s">>
    /\ IsMapping(event.payload)
    /\ NormalizeStatus(Get(event.payload, "device_status")) # NoneStr

\* DeviceStatusStore.ensure_from_event(event, device_id=...) lines 54-141 with the
\* wall clock reading now.  fault: a database statement of the call raises, which
\* leaves the table as it was (every statement is its own transaction).
StatusStoreCall(tbl, next_id, clock, event, device_id, now, fault) ==
    IF ~StatusAccepts(event) THEN Untouched(tbl, next_id, clock, "skipped")
    ELSE IF fault THEN Untouched(tbl, next_id, clock, "raised")
    ELSE LET status == NormalizeStatus(Get(event.payload, "device_status"))
             ts == EventTimestamp(event, now)
             up == UpsertStatus(tbl, next_id, device_id, status, ts, clock)
         IN  [tbl |-> up.tbl,
              next_id |-> IF up.created THEN next_id + 1 ELSE next_id,
              clock |-> clock + 1,
              res |-> IF up.created THEN "inserted" ELSE "updated",
              device_id |-> device_id,
              packet |-> <<[device_id |-> device_id,
                            status |-> status,
                            ts_epoch |-> ts.ts_epoch,
                            ts_datetime |-> ts.ts_datetime,
                            ts_ms |-> event.ts_ms,
                            now |-> now]>>]

(***************************************************************************)
(* The OS-version store (device_os_status_store.py) over                   *)
(* dbo.device_os_status.                                                   *)
(***************************************************************************)
\* Variant of OsVersionOf that writes the version string as received.
OsVersionOf_Untrimmed(event) ==
    IF event.subtype # <<"s", "t", "a", "t", "u", "s">> \/ ~IsMapping(event.payload) THEN NoneStr
    ELSE LET os_version == SafeStr(Get(event.payload, "device_os_version"))
         IN  IF os_version = NoneStr \/ Strip(os_version) = <<>> THEN NoneStr
             ELSE os_version

\* ensure_from_event lines 53-67: the version string the store writes, NoneStr
\* when it skips the packet.
OsVersionOf(event) ==
    IF event.subtype # <<"s", "t", "a", "t", "u", "s">> \/ ~IsMapping(event.payload) THEN NoneStr
    ELSE LET os_version == SafeStr(Get(event.payload, "device_os_version"))
         IN  IF os_version = NoneStr \/ Strip(os_version) = <<>> THEN NoneStr
             ELSE Strip(os_version)

\* upsert_os_version lines 78-130 on the table
UpsertOsVersion(tbl, next_id, device_id, os_version, ts, clock) ==
    LET row == SelectByDeviceId(tbl, device_id)
    IN  IF row = <<>>
        THEN [tbl |-> Append(tbl,
                         [id |-> next_id,
                          device_id |-> device_id,
                          os_version |-> os_version,
                          ts_epoch |-> ts.ts_epoch,
                          ts_datetime |-> ts.ts_datetime,
                          created_at |-> clock,
                          updated_at |-> clock]),
              created |-> TRUE]
        ELSE [tbl |-> [i \in 1..Len(tbl) |->
                         IF tbl[i].id = row[1].id
                         THEN [tbl[i] EXCEPT
                                  !.os_version = os_version,
                                  !.ts_epoch = ts.ts_epoch,
                                  !.ts_datetime = ts.ts_datetime,
                                  !.updated_at = clock]
                         ELSE tbl[i]],
              created |-> FALSE]

\* DeviceOsStatusStore.ensure_from_event lines 50-130
OsStoreCall(tbl, next_id, clock, event, device_id, now, fault) ==
    IF OsVersionOf(event) = NoneStr THEN Untouched(tbl, next_id, clock, "skipped")
    ELSE IF fault THEN Untouched(tbl, next_id, clock, "raised")
    ELSE LET up == UpsertOsVersion(tbl, next_id, device_id, OsVersionOf(event),
                                   EventTimestamp(event, now), clock)
         IN  [tbl |-> up.tbl,
              next_id |-> IF up.created THEN next_id + 1 ELSE next_id,
              clock |-> clock + 1,
              res |-> IF up.created THEN "inserted" ELSE "updated",
              device_id |-> device_id,
              packet |-> <<>>]

(***************************************************************************)
(* The storage store (device_storage_status_store.py) over                 *)
(* dbo.device_storage_status.                                              *)
(***************************************************************************)
\* Variant of NormalizeDrive without the upper() of line 318.
NormalizeDrive_NoUpper(value) ==
    LET stripped == Strip(value)
        drive == IF Len(stripped) >= 2 /\ stripped[2] = ":" THEN <<stripped[1]>>
                 ELSE stripped
    IN  IF stripped = <<>> THEN NoneStr
        ELSE IF Len(drive) # 1 THEN NoneStr
        ELSE IF ~(\E i \in 1..Len(UpperCase) : UpperCase[i] = drive[1]) THEN NoneStr
        ELSE drive

\* _normalize_drive lines 300-325 on a key of the storage object
NormalizeDrive(value) ==
    LET stripped == Strip(value)
        cut == IF Len(stripped) >= 2 /\ stripped[2] = ":" THEN <<stripped[1]>>
               ELSE stripped
        drive == Upper(cut)
    IN  IF stripped = <<>> THEN NoneStr
        ELSE IF Len(drive) # 1 THEN NoneStr
        ELSE IF ~(\E i \in 1..Len(UpperCase) : UpperCase[i] = drive[1]) THEN NoneStr
        ELSE drive

\* _select_by_device_and_drive lines 184-192
SelectByDeviceAndDrive(tbl, device_id, drive) ==
    LET hits == {i \in 1..Len(tbl) : tbl[i].device_id = device_id /\ tbl[i].drive = drive}
    IN  IF hits = {} THEN <<>>
        ELSE <<tbl[CHOOSE i \in hits : \A j \in hits : i <= j]>>

\* Variant of UpsertDrive whose update refreshes the timestamps of the row
\* found and keeps its capacity columns.
UpsertDrive_KeepCapacity(tbl, next_id, device_id, drive, f, ts, clock) ==
    LET row == SelectByDeviceAndDrive(tbl, device_id, drive)
    IN  IF row = <<>>
        THEN [tbl |-> Append(tbl,
                         [id |-> next_id,
                          device_id |-> device_id,
                          drive |-> drive,
                          drive_type |-> f.drive_type,
                          format |-> f.format,
                          total_gb |-> f.total_gb,
                          free_gb |-> f.free_gb,
                          used_gb |-> f.used_gb,
                          usage_percent |-> f.usage_percent,
                          ts_epoch |-> ts.ts_epoch,
                          ts_datetime |-> ts.ts_datetime,
                          created_at |-> clock,
                          updated_at |-> clock]),
              created |-> TRUE]
        ELSE [tbl |-> [i \in 1..Len(tbl) |->
                         IF tbl[i].id = row[1].id
                         THEN [tbl[i] EXCEPT
                                  !.ts_epoch = ts.ts_epoch,
                                  !.ts_datetime = ts.ts_datetime,
                                  !.updated_at = clock]
                         ELSE tbl[i]],
              created |-> FALSE]

\* upsert_drive lines 110-169 on the table; f holds the converted columns
UpsertDrive(tbl, next_id, device_id, drive, f, ts, clock) ==
    LET row == SelectByDeviceAndDrive(tbl, device_id, drive)
    IN  IF row = <<>>
        THEN [tbl |-> Append(tbl,
                         [id |-> next_id,
                          device_id |-> device_id,
                          drive |-> drive,
                          drive_type |-> f.drive_type,
                          format |-> f.format,
                          total_gb |-> f.total_gb,
                          free_gb |-> f.free_gb,
                          used_gb |-> f.used_gb,
                          usage_percent |-> f.usage_percent,
                          ts_epoch |-> ts.ts_epoch,
                          ts_datetime |-> ts.ts_datetime,
                          created_at |-> clock,
                          updated_at |-> clock]),
              created |-> TRUE]
        ELSE [tbl |-> [i \in 1..Len(tbl) |->
                         IF tbl[i].id = row[1].id
                         THEN [tbl[i] EXCEPT
                                  !.drive_type = f.drive_type,
                                  !.format = f.format,
                                  !.total_gb = f.total_gb,
                                  !.free_gb = f.free_gb,
                                  !.used_gb = f.used_gb,
                                  !.usage_percent = f.usage_percent,
                                  !.ts_epoch = ts.ts_epoch,
                                  !.ts_datetime = ts.ts_datetime,
                                  !.updated_at = clock]
                         ELSE tbl[i]],
              created |-> FALSE]

\* the converted columns of one entry; raised when a _safe_float raised
DriveColumnsOf(total_gb, free_gb, used_gb, usage_percent, drive_type, format) ==
    [raised |-> total_gb.raised \/ free_gb.raised \/ used_gb.raised
                \/ usage_percent.raised,
     total_gb |-> total_gb.v,
     free_gb |-> free_gb.v,
     used_gb |-> used_gb.v,
     usage_percent |-> usage_percent.v,
     drive_type |-> drive_type,
     format |-> format]

\* ensure_from_event lines 83-92: the conversions of one entry
DriveColumns(info) ==
    DriveColumnsOf(SafeFloat(Get(info, "total_gb")),
                   SafeFloat(Get(info, "free_gb")),
                   SafeFloat(Get(info, "used_gb")),
                   SafeFloat(Get(info, "used_pct")),
                   SafeStr(Get(info, "drive_type")),
                   SafeStr(Get(info, "format")))

\* ensure_from_event line 106: upserts += 1 once upsert_drive returned
AfterUpsertDrive(acc, up) ==
    [tbl |-> up.tbl,
     next_id |-> IF up.created THEN acc.next_id + 1 ELSE acc.next_id,
     clock |-> acc.clock + 1,
     upserts |-> acc.upserts + 1,
     calls |-> acc.calls + 1,
     raised |-> FALSE]

\* ensure_from_event lines 81-106 for an entry with a drive name and an object:
\* convert the columns, then upsert_drive; the fail_at-th upsert_drive call raises.
StorageDrive(acc, drive_name, f, device_id, ts, fail_at) ==
    IF f.raised THEN [acc EXCEPT !.raised = TRUE]
    ELSE IF acc.calls + 1 = fail_at
    THEN [acc EXCEPT !.raised = TRUE, !.calls = acc.calls + 1]
    ELSE AfterUpsertDrive(acc, UpsertDrive(acc.tbl, acc.next_id, device_id, drive_name,
                                           f, ts, acc.clock))

\* Variant of StorageEntry in which an entry without a drive name or whose value
\* is no object ends the loop with an exception.
StorageEntry_StopAtInvalid(acc, drive_name, info, device_id, ts, fail_at) ==
    IF drive_name = NoneStr \/ ~IsMapping(info) THEN [acc EXCEPT !.raised = TRUE]
    ELSE StorageDrive(acc, drive_name, DriveColumns(info), device_id, ts, fail_at)

\* ensure_from_event lines 74-79: entries without a drive name or whose value is
\* no object are passed over
StorageEntry(acc, drive_name, info, device_id, ts, fail_at) ==
    IF drive_name = NoneStr \/ ~IsMapping(info) THEN acc
    ELSE StorageDrive(acc, drive_name, DriveColumns(info), device_id, ts, fail_at)

\* ensure_from_event lines 72-108: the loop over storage_map.items() from entry k
\* on.  acc carries the table, the upserts made, the upsert_drive calls made and
\* whether an exception left the loop.
RECURSIVE StorageLoop(_, _, _, _, _, _)
StorageLoop(entries, k, acc, device_id, ts, fail_at) ==
    IF k > Len(entries) \/ acc.raised THEN acc
    ELSE StorageLoop(entries, k + 1,
                     StorageEntry(acc, NormalizeDrive(entries[k].drive), entries[k].info,
                                  device_id, ts, fail_at),
                     device_id, ts, fail_at)

\* the result of ensure_from_event once the loop ended
StorageResult(acc, device_id) ==
    [tbl |-> acc.tbl,
     next_id |-> acc.next_id,
     clock |-> acc.clock,
     res |-> IF acc.raised THEN "raised" ELSE "returned",
     device_id |-> device_id,
     packet |-> <<[upserts |-> acc.upserts]>>]

\* Variant of StorageStoreCall that undoes the drives written when a drive raises.
StorageStoreCall_AllOrNothing(tbl, next_id, clock, event, device_id, now, fail_at) ==
    IF event.subtype # <<"s", "t", "o", "r", "a", "g", "e">> \/ ~IsMapping(event.payload)
    THEN Untouched(tbl, next_id, clock, "skipped")
    ELSE IF ~IsMapping(Get(event.payload, "storage"))
    THEN Untouched(tbl, next_id, clock, "skipped")
    ELSE IF StorageLoop(Get(event.payload, "storage").v, 1,
                        [tbl |-> tbl, next_id |-> next_id, clock |-> clock,
                         upserts |-> 0, calls |-> 0, raised |-> FALSE],
                        device_id, EventTimestamp(event, now), fail_at).raised
    THEN [tbl |-> tbl, next_id |-> next_id, clock |-> clock, res |-> "raised",
          device_id |-> device_id, packet |-> <<[upserts |-> 0]>>]
    ELSE StorageResult(StorageLoop(Get(event.payload, "storage").v, 1,
                                   [tbl |-> tbl, next_id |-> next_id, clock |-> clock,
                                    upserts |-> 0, calls |-> 0, raised |-> FALSE],
                                   device_id, EventTimestamp(event, now), fail_at),
                       device_id)

\* DeviceStorageStatusStore.ensure_from_event lines 56-108
StorageStoreCall(tbl, next_id, clock, event, device_id, now, fail_at) ==
    IF event.subtype # <<"s", "t", "o", "r", "a", "g", "e">> \/ ~IsMapping(event.payload)
    THEN Untouched(tbl, next_id, clock, "skipped")
    ELSE IF ~IsMapping(Get(event.payload, "storage"))
    THEN Untouched(tbl, next_id, clock, "skipped")
    ELSE StorageResult(StorageLoop(Get(event.payload, "storage").v, 1,
                                   [tbl |-> tbl, next_id |-> next_id, clock |-> clock,
                                    upserts |-> 0, calls |-> 0, raised |-> FALSE],
                                   device_id, EventTimestamp(event, now), fail_at),
                       device_id)

(***************************************************************************)
(* The statistics store (device_statistics_store.py) over                  *)
(* dbo.device_statistics.                                                  *)
(***************************************************************************)
\* insert_from_event lines 60-69: the packets the store acts on.
StatisticsAccepts(event) ==
    /\ event.subtype = <<"s", "t", "a", "t", "i", "s", "t", "i", "c", "s">>
    /\ IsMapping(event.payload)
    /\ IsMapping(Get(event.payload, "statistics"))

\* insert_from_event lines 75-90: payload keys to columns
StatisticsColumns(stats_map) ==
    [total_items |-> SafeIntOrZero(Get(stats_map, "total_items")),
     no_read |-> SafeIntOrZero(Get(stats_map, "no_reads")),
     good_read |-> SafeIntOrZero(Get(stats_map, "good_reads")),
     no_dimension |-> SafeIntOrZero(Get(stats_map, "no_dimensions")),
     no_weight |-> SafeIntOrZero(Get(stats_map, "no_weight")),
     data_sent |-> SafeIntOrZero(Get(stats_map, "sent")),
     not_sent |-> SafeIntOrZero(Get(stats_map, "not_sent")),
     item_out_of_spec |-> SafeIntOrZero(Get(stats_map, "out_of_spec")),
     more_than_1_item |-> SafeIntOrZero(Get(stats_map, "more_than_one_item")),
     image_sent |-> SafeIntOrZero(Get(stats_map, "image_sent")),
     image_not_sent |-> SafeIntOrZero(Get(stats_map, "image_not_sent"))]

\* Variant of InsertStatistics that keeps one row per device, overwriting it.
InsertStatistics_Merge(tbl, next_id, device_id, ts, c, clock) ==
    IF SelectByDeviceId(tbl, device_id) = <<>>
    THEN Append(tbl, [id |-> next_id, device_id |-> device_id,
                      ts_epoch |-> ts.ts_epoch, ts_datetime |-> ts.ts_datetime,
                      counters |-> c, created_at |-> clock])
    ELSE [i \in 1..Len(tbl) |->
             IF tbl[i].device_id = device_id
             THEN [tbl[i] EXCEPT !.ts_epoch = ts.ts_epoch,
                                 !.ts_datetime = ts.ts_datetime,
                                 !.counters = c]
             ELSE tbl[i]]

\* _insert_statistics lines 131-193: one INSERT, no SELECT before it
InsertStatistics(tbl, next_id, device_id, ts, c, clock) ==
    Append(tbl, [id |-> next_id, device_id |-> device_id,
                 ts_epoch |-> ts.ts_epoch, ts_datetime |-> ts.ts_datetime,
                 counters |-> c, created_at |-> clock])

\* insert_from_event lines 75-116 with the packet's statistics object.  fault:
\* the INSERT raises and leaves the table as it was.  The packet records the
\* statistics object next to the columns converted from it.
StatisticsInsertCall(tbl, next_id, clock, device_id, ts, stats_map, fault) ==
    IF fault
    THEN [tbl |-> tbl, next_id |-> next_id, clock |-> clock,
          res |-> "raised", device_id |-> device_id,
          packet |-> <<[device_id |-> device_id, ts_epoch |-> ts.ts_epoch,
                        counters |-> StatisticsColumns(stats_map),
                        stats |-> stats_map, inserted |-> FALSE]>>]
    ELSE [tbl |-> InsertStatistics(tbl, next_id, device_id, ts,
                                   StatisticsColumns(stats_map), clock),
          next_id |-> next_id + 1,
          clock |-> clock + 1,
          res |-> "inserted",
          device_id |-> device_id,
          packet |-> <<[device_id |-> device_id, ts_epoch |-> ts.ts_epoch,
                        counters |-> StatisticsColumns(stats_map),
                        stats |-> stats_map, inserted |-> TRUE]>>]

\* DeviceStatisticsStore.insert_from_event lines 57-116
StatisticsStoreCall(tbl, next_id, clock, event, device_id, now, fault) ==
    IF ~StatisticsAccepts(event) THEN Untouched(tbl, next_id, clock, "skipped")
    ELSE StatisticsInsertCall(tbl, next_id, clock, device_id,
                              EventTimestamp(event, now),
                              Get(event.payload, "statistics"),
                              fault)

(***************************************************************************)
(* The stores called directly (one caller, one call per step).             *)
(***************************************************************************)
MaxPackets == 3

DeviceIds == {1, 2}

\* wall clock readings of datetime.now(), in milliseconds
NowValues == {7000}

\* ts of the payload as decoded by build_event
TsValues == {NoneInt, 0, 1500}

\* payload.get("device_status")
StatusValues ==
    { JNone, JStr(<<"o", "n", "l", "i", "n", "e">>), JStr(<<" ", "O", "F", "F", "L", "I", "N", "E", " ">>), JStr(<<"O", "f", "f", "l", "i", "n", "e">>), JStr(<<"b", "u", "s", "y">>),
      JBool(TRUE) }

\* events handed to the status store: status packets, and packets of another
\* subtype or without an object payload
StatusEvents ==
    { [subtype |-> <<"s", "t", "a", "t", "u", "s">>, ts_ms |-> ts, payload |-> JObj([device_status |-> v])] :
        ts \in TsValues, v \in StatusValues }
    \cup { [subtype |-> <<"s", "t", "o", "r", "a", "g", "e">>, ts_ms |-> NoneInt,
            payload |-> JObj([device_status |-> JStr(<<"o", "n", "l", "i", "n", "e">>)])],
           [subtype |-> <<"s", "t", "a", "t", "u", "s">>, ts_ms |-> NoneInt, payload |-> JNone] }

\* DeviceStatusStore.ensure_from_event(event, device_id=...) lines 54-141
Status_EnsureFromEvent(event, device_id, now, fault) ==
    /\ Len(status_log) < MaxPackets
    /\ LET call == StatusStoreCall(device_status, next_status_id, db_clock, event,
                                   device_id, now, fault)
       IN  /\ device_status' = call.tbl
           /\ next_status_id' = call.next_id
           /\ db_clock' = call.clock
           /\ status_res' = call.res
           /\ status_log' = status_log \o call.packet
    /\ UNCHANGED <<connVars, devices, next_device_id, db_faults, writerVars, store_call,
                   normVars, decoderVars, handleVars, lockVars, configured, osVars,
                   storageVars, statisticsVars, dispatchVars>>

NextStatus ==
    \E event \in StatusEvents, device_id \in DeviceIds, now \in NowValues,
       fault \in BOOLEAN :
        Status_EnsureFromEvent(event, device_id, now, fault)

\* wall clock readings of two different moments
StatusNowValues == {7000, 9000}

\* the status packets of one status, with and without a ts
TimestampEvents ==
    { event \in StatusEvents :
        /\ event.subtype = <<"s", "t", "a", "t", "u", "s">>
        /\ IsMapping(event.payload)
        /\ Get(event.payload, "device_status") = JStr(<<"o", "n", "l", "i", "n", "e">>) }

\* the status store applying packets at different moments
NextTimestamp ==
    \E event \in TimestampEvents, device_id \in DeviceIds, now \in StatusNowValues :
        Status_EnsureFromEvent(event, device_id, now, FALSE)

\* payload.get("statistics")
StatisticsValues ==
    { JNone, JStr(<<"b", "u", "s", "y">>), JObj([total_items |-> JNone]),
      JObj([total_items |-> JInt(5), good_reads |-> JStr(<<" ", "4", " ">>),
            no_reads |-> JBool(TRUE), sent |-> JStr(<<"b", "u", "s", "y">>),
            not_sent |-> JNone, out_of_spec |-> JStr(<<"-", "3">>),
            image_sent |-> JObj([n |-> JInt(2)])]) }

\* events handed to the statistics store: statistics packets, and packets of
\* another subtype or without an object payload
StatisticsEvents ==
    { [subtype |-> <<"s", "t", "a", "t", "i", "s", "t", "i", "c", "s">>, ts_ms |-> ts, payload |-> JObj([statistics |-> v])] :
        ts \in {NoneInt, 1500}, v \in StatisticsValues }
    \cup { [subtype |-> <<"s", "t", "a", "t", "u", "s">>, ts_ms |-> NoneInt,
            payload |-> JObj([statistics |-> JObj([total_items |-> JInt(5)])])],
           [subtype |-> <<"s", "t", "a", "t", "i", "s", "t", "i", "c", "s">>, ts_ms |-> NoneInt, payload |-> JNone] }

\* DeviceStatisticsStore.insert_from_event(event, device_id=...) lines 57-116
Statistics_InsertFromEvent(event, device_id, now, fault) ==
    /\ Len(stats_log) < MaxPackets
    /\ LET call == StatisticsStoreCall(device_statistics, next_statistics_id, db_clock,
                                       event, device_id, now, fault)
       IN  /\ device_statistics' = call.tbl
           /\ next_statistics_id' = call.next_id
           /\ db_clock' = call.clock
           /\ stats_res' = call.res
           /\ stats_log' = stats_log \o call.packet
    /\ UNCHANGED <<connVars, devices, next_device_id, db_faults, writerVars, store_call,
                   normVars, decoderVars, handleVars, lockVars, configured, statusVars,
                   osVars, storageVars, dispatchVars>>

NextStatistics ==
    \E event \in StatisticsEvents, device_id \in DeviceIds, now \in NowValues,
       fault \in BOOLEAN :
        Statistics_InsertFromEvent(event, device_id, now, fault)

StatusInit ==
    /\ device_status = <<>>
    /\ next_status_id = 1
    /\ status_res = "none"
    /\ status_log = <<>>

OsInit ==
    /\ device_os_status = <<>>
    /\ next_os_id = 1

StorageInit ==
    /\ device_storage_status = <<>>
    /\ next_storage_id = 1

StatisticsInit ==
    /\ device_statistics = <<>>
    /\ next_statistics_id = 1
    /\ stats_res = "none"
    /\ stats_log = <<>>

(***************************************************************************)
(* The dispatch (mqtt_client.py _on_message): the network thread decodes   *)
(* one message, resolves the device, calls the signal stores of the        *)
(* subtype and logs the event, all before it takes the next message.       *)
(***************************************************************************)
MaxMessages == 2
MaxDrives == 2

SignalStores == {"status", "os", "storage", "statistics"}

\* _on_message lines 263-309: the signal stores the dispatch invokes for a subtype
\* once the device is resolved
ApplicableStores(subtype) ==
    IF subtype = <<"s", "t", "a", "t", "u", "s">> THEN {"status", "os"}
    ELSE IF subtype = <<"s", "t", "o", "r", "a", "g", "e">> THEN {"storage"}
    ELSE IF subtype = <<"s", "t", "a", "t", "i", "s", "t", "i", "c", "s">> THEN {"statistics"}
    ELSE {}

MsgTopics ==
    { <<"s", "/", "c", "/", "l", "/", "m", "/", "s", "t", "a", "t", "u", "s">>, <<"/", "s", "/", "c", "/", "l", "/", "m", "/", "s", "t", "o", "r", "a", "g", "e", "/">>, <<"s", "/", "c", "/", "/", "l", "/", "m", "/", "s", "t", "a", "t", "i", "s", "t", "i", "c", "s">>,
      <<"s", "/", "c", "/", "l", "/", "m", "/", "s", "t", "a", "t", "u", "s", "/", "x">>, <<"s", "/", "c", "/", "l", "/", "s", "t", "a", "t", "u", "s">>,
      <<"s", "/", "d", "/", " ", "l", "/", "m", "/", "s", "t", "a", "t", "u", "s">> }

MsgPayloads ==
    { [enc |-> "empty"],
      [enc |-> "garbage"],
      [enc |-> "json", v |-> JInt(1)],
      [enc |-> "json",
       v |-> JObj([serial_number |-> JStr(<<>>),
                   device_status |-> JStr(<<"o", "n", "l", "i", "n", "e">>)])],
      [enc |-> "json",
       v |-> JObj([serial_number |-> JStr(<<" ", " ">>),
                   device_status |-> JStr(<<"o", "n", "l", "i", "n", "e">>)])],
      [enc |-> "json",
       v |-> JObj([device_status |-> JStr(<<"o", "f", "f", "l", "i", "n", "e">>)])],
      [enc |-> "json",
       v |-> JObj([serial_number |-> JStr(<<" ", "S", "1">>), ts |-> JInt(1500),
                   device_status |-> JStr(<<" ", "O", "F", "F", "L", "I", "N", "E", " ">>),
                   device_os_version |-> JStr(<<" ", "W", "1", "0", " ">>)])],
      [enc |-> "json",
       v |-> JObj([serial_number |-> JStr(<<"S", "1">>),
                   statistics |-> JObj([total_items |-> JInt(5)])])],
      [enc |-> "json",
       v |-> JObj([serial_number |-> JStr(<<"S", "1">>), ts |-> JStr(<<"2", "0", "0", "0">>),
                   storage |-> JObj(<<[drive |-> <<"c", ":">>,
                                       info |-> JObj([total_gb |-> JInt(100),
                                                      used_pct |-> JStr(<<"4", "0">>)])],
                                      [drive |-> <<"D">>,
                                       info |-> JObj([total_gb |-> JInt(50)])]>>)])],
      [enc |-> "json",
       v |-> JObj([serial_number |-> JStr(<<"S", "2">>),
                   storage |-> JObj(<<[drive |-> <<"C">>,
                                       info |-> JObj([total_gb |-> JInt(10)])],
                                      [drive |-> <<"D", ":", "\\">>,
                                       info |-> JObj([total_gb |-> JBigInt])]>>)])] }

Messages ==
    { [topic |-> t, payload |-> p, qos |-> 1, retain |-> FALSE] :
        t \in MsgTopics, p \in MsgPayloads }

\* what the device store handed back to the dispatch
Resolved == device_result # NoneInt

\* the dispatch records the call it made to a store and how it ended
NoteCall(store, res) ==
    /\ invoked' = Append(invoked, [store |-> store, res |-> res])
    /\ raised_in' = IF res = "raised" THEN raised_in \cup {store} ELSE raised_in

\* Variant of OnMessage_Decode in which a message build_event rejects is handed
\* to the resolver all the same, with the fields of an empty event.
OnMessage_Decode_ResolveRejected(msg, fault) ==
    /\ loop = "running"
    /\ link = "session"
    /\ netpc = "idle"
    /\ dpc = "idle"
    /\ delivered < MaxMessages
    /\ delivered' = delivered + 1
    /\ LET built == BuildEvent(msg)
       IN  IF built = <<>>
           THEN /\ last_event' = <<>>
                /\ invoked' = <<[store |-> "device", res |-> "skipped"]>>
                /\ raised_in' = {}
                /\ device_result' = NoneInt
                /\ logged' = "unmatched"
                /\ cb_outcome' = "returned"
                /\ unmatched_lines' = unmatched_lines + 1
                /\ UNCHANGED <<dpc, devices, next_device_id, db_clock>>
           ELSE LET call == DeviceStoreCall(devices, next_device_id, db_clock,
                                            built[1], fault)
                IN  /\ last_event' = built
                    /\ devices' = call.tbl
                    /\ next_device_id' = call.next_id
                    /\ db_clock' = call.clock
                    /\ device_result' = call.device_id
                    /\ invoked' = <<[store |-> "device", res |-> call.res]>>
                    /\ raised_in' = IF call.res = "raised" THEN {"device"} ELSE {}
                    /\ logged' = "none"
                    /\ cb_outcome' = "running"
                    /\ dpc' = "status"
                    /\ UNCHANGED unmatched_lines
    /\ UNCHANGED <<connVars, db_faults, writerVars, signalVars>>

\* Variant of OnMessage_Decode in which the next message is taken up while the
\* callback of the previous one is still running.
OnMessage_Decode_Reentrant(msg, fault) ==
    /\ loop = "running"
    /\ link = "session"
    /\ netpc = "idle"
    /\ delivered < MaxMessages
    /\ delivered' = delivered + 1
    /\ LET built == BuildEvent(msg)
       IN  IF built = <<>>
           THEN /\ last_event' = <<>>
                /\ invoked' = <<>>
                /\ raised_in' = {}
                /\ device_result' = NoneInt
                /\ logged' = "unmatched"
                /\ cb_outcome' = "returned"
                /\ unmatched_lines' = unmatched_lines + 1
                /\ UNCHANGED <<dpc, devices, next_device_id, db_clock>>
           ELSE LET call == DeviceStoreCall(devices, next_device_id, db_clock,
                                            built[1], fault)
                IN  /\ last_event' = built
                    /\ devices' = call.tbl
                    /\ next_device_id' = call.next_id
                    /\ db_clock' = call.clock
                    /\ device_result' = call.device_id
                    /\ invoked' = <<[store |-> "device", res |-> call.res]>>
                    /\ raised_in' = IF call.res = "raised" THEN {"device"} ELSE {}
                    /\ logged' = "none"
                    /\ cb_outcome' = "running"
                    /\ dpc' = "status"
                    /\ UNCHANGED unmatched_lines
    /\ UNCHANGED <<connVars, db_faults, writerVars, signalVars>>

\* _on_message lines 236-261: decode the message; no event, log "[?]" and
\* return; else resolve the device, an exception of the resolver being logged
\* and read as no device.  fault: a statement of the resolver raises.  Without
\* a resolver (line 255) the blocks of the signal stores, nested in the same
\* if, are passed over and the log line is next.
OnMessage_Decode(msg, fault) ==
    /\ loop = "running"
    /\ link = "session"
    /\ netpc = "idle"
    /\ dpc = "idle"
    /\ delivered < MaxMessages
    /\ delivered' = delivered + 1
    /\ LET built == BuildEvent(msg)
       IN  IF built = <<>>
           THEN /\ last_event' = <<>>
                /\ invoked' = <<>>
                /\ raised_in' = {}
                /\ device_result' = NoneInt
                /\ logged' = "unmatched"
                /\ cb_outcome' = "returned"
                /\ unmatched_lines' = unmatched_lines + 1
                /\ UNCHANGED <<dpc, devices, next_device_id, db_clock>>
           ELSE IF "device" \notin configured
           THEN /\ last_event' = built
                /\ invoked' = <<>>
                /\ raised_in' = {}
                /\ device_result' = NoneInt
                /\ logged' = "none"
                /\ cb_outcome' = "running"
                /\ dpc' = "log"
                /\ UNCHANGED <<devices, next_device_id, db_clock, unmatched_lines>>
           ELSE LET call == DeviceStoreCall(devices, next_device_id, db_clock,
                                            built[1], fault)
                IN  /\ last_event' = built
                    /\ devices' = call.tbl
                    /\ next_device_id' = call.next_id
                    /\ db_clock' = call.clock
                    /\ device_result' = call.device_id
                    /\ invoked' = <<[store |-> "device", res |-> call.res]>>
                    /\ raised_in' = IF call.res = "raised" THEN {"device"} ELSE {}
                    /\ logged' = "none"
                    /\ cb_outcome' = "running"
                    /\ dpc' = "status"
                    /\ UNCHANGED unmatched_lines
    /\ UNCHANGED <<connVars, db_faults, writerVars, signalVars>>

\* _on_message lines 263-273: the status store, its exception logged
OnMessage_Status(now, fault) ==
    /\ dpc = "status"
    /\ dpc' = "os"
    /\ IF /\ Resolved
          /\ "status" \in configured
          /\ last_event[1].subtype = <<"s", "t", "a", "t", "u", "s">>
       THEN LET call == StatusStoreCall(device_status, next_status_id, db_clock,
                                        last_event[1], device_result, now, fault)
            IN  /\ device_status' = call.tbl
                /\ next_status_id' = call.next_id
                /\ db_clock' = call.clock
                /\ status_res' = call.res
                /\ status_log' = status_log \o call.packet
                /\ NoteCall("status", call.res)
       ELSE UNCHANGED <<statusVars, db_clock, invoked, raised_in>>
    /\ UNCHANGED <<connVars, devices, next_device_id, db_faults, writerVars, store_call,
                   normVars, decoderVars, handleVars, lockVars, configured, osVars,
                   storageVars, statisticsVars, last_event, device_result, logged,
                   cb_outcome, delivered, unmatched_lines>>

\* _on_message lines 275-285: the OS-version store, its exception logged
OnMessage_Os(now, fault) ==
    /\ dpc = "os"
    /\ dpc' = "storage"
    /\ IF /\ Resolved
          /\ "os" \in configured
          /\ last_event[1].subtype = <<"s", "t", "a", "t", "u", "s">>
       THEN LET call == OsStoreCall(device_os_status, next_os_id, db_clock,
                                    last_event[1], device_result, now, fault)
            IN  /\ device_os_status' = call.tbl
                /\ next_os_id' = call.next_id
                /\ db_clock' = call.clock
                /\ NoteCall("os", call.res)
       ELSE UNCHANGED <<osVars, db_clock, invoked, raised_in>>
    /\ UNCHANGED <<connVars, devices, next_device_id, db_faults, writerVars, store_call,
                   normVars, decoderVars, handleVars, lockVars, configured, statusVars,
                   storageVars, statisticsVars, last_event, device_result, logged,
                   cb_outcome, delivered, unmatched_lines>>

\* _on_message lines 287-297: the storage store, its exception logged.
\* fail_at: the upsert_drive call that raises (0: none).
OnMessage_Storage(now, fail_at) ==
    /\ dpc = "storage"
    /\ dpc' = "statistics"
    /\ IF /\ Resolved
          /\ "storage" \in configured
          /\ last_event[1].subtype = <<"s", "t", "o", "r", "a", "g", "e">>
       THEN LET call == StorageStoreCall(device_storage_status, next_storage_id,
                                         db_clock, last_event[1], device_result, now,
                                         fail_at)
            IN  /\ device_storage_status' = call.tbl
                /\ next_storage_id' = call.next_id
                /\ db_clock' = call.clock
                /\ NoteCall("storage", call.res)
       ELSE UNCHANGED <<storageVars, db_clock, invoked, raised_in>>
    /\ UNCHANGED <<connVars, devices, next_device_id, db_faults, writerVars, store_call,
                   normVars, decoderVars, handleVars, lockVars, configured, statusVars,
                   osVars, statisticsVars, last_event, device_result, logged,
                   cb_outcome, delivered, unmatched_lines>>

\* Variant of OnMessage_Statistics that writes the statistics object of every
\* resolved event, whatever its subtype.
OnMessage_Statistics_AnySubtype(now, fault) ==
    /\ dpc = "statistics"
    /\ dpc' = "log"
    /\ IF /\ Resolved
          /\ IsMapping(last_event[1].payload)
          /\ IsMapping(Get(last_event[1].payload, "statistics"))
       THEN LET call == StatisticsInsertCall(
                            device_statistics, next_statistics_id, db_clock,
                            device_result, EventTimestamp(last_event[1], now),
                            Get(last_event[1].payload, "statistics"),
                            fault)
            IN  /\ device_statistics' = call.tbl
                /\ next_statistics_id' = call.next_id
                /\ db_clock' = call.clock
                /\ stats_res' = call.res
                /\ stats_log' = stats_log \o call.packet
                /\ NoteCall("statistics", call.res)
       ELSE UNCHANGED <<statisticsVars, db_clock, invoked, raised_in>>
    /\ UNCHANGED <<connVars, devices, next_device_id, db_faults, writerVars, store_call,
                   normVars, decoderVars, handleVars, lockVars, configured, statusVars,
                   osVars, storageVars, last_event, device_result, logged,
                   cb_outcome, delivered, unmatched_lines>>

\* _on_message lines 299-309: the statistics store, its exception logged
OnMessage_Statistics(now, fault) ==
    /\ dpc = "statistics"
    /\ dpc' = "log"
    /\ IF /\ Resolved
          /\ "statistics" \in configured
          /\ last_event[1].subtype = <<"s", "t", "a", "t", "i", "s", "t", "i", "c", "s">>
       THEN LET call == StatisticsStoreCall(device_statistics, next_statistics_id,
                                            db_clock, last_event[1], device_result,
                                            now, fault)
            IN  /\ device_statistics' = call.tbl
                /\ next_statistics_id' = call.next_id
                /\ db_clock' = call.clock
                /\ stats_res' = call.res
                /\ stats_log' = stats_log \o call.packet
                /\ NoteCall("statistics", call.res)
       ELSE UNCHANGED <<statisticsVars, db_clock, invoked, raised_in>>
    /\ UNCHANGED <<connVars, devices, next_device_id, db_faults, writerVars, store_call,
                   normVars, decoderVars, handleVars, lockVars, configured, statusVars,
                   osVars, storageVars, last_event, device_result, logged,
                   cb_outcome, delivered, unmatched_lines>>

\* _on_message line 311: self._logger.info(event.to_log_line()), outside any
\* try.  An exception that leaves the callback leaves the client library's loop
\* too, which ends the network thread.
OnMessage_Log ==
    /\ dpc = "log"
    /\ dpc' = "idle"
    /\ LET line == ToLogLine(last_event[1])
       IN  /\ logged' = IF line.raised THEN "nothing" ELSE line.line
           /\ cb_outcome' = IF line.raised THEN "raised" ELSE "returned"
           /\ loop' = IF line.raised THEN "crashed" ELSE loop
    /\ UNCHANGED <<connButLoop, resolverVars, signalVars, last_event, device_result,
                   invoked, raised_in, delivered, unmatched_lines>>

DispatchVarsInit ==
    /\ dpc = "idle"
    /\ last_event = <<>>
    /\ device_result = NoneInt
    /\ invoked = <<>>
    /\ raised_in = {}
    /\ logged = "none"
    /\ cb_outcome = "none"
    /\ delivered = 0
    /\ unmatched_lines = 0

NextDispatch ==
    \/ \E msg \in Messages, fault \in BOOLEAN : OnMessage_Decode(msg, fault)
    \/ \E now \in NowValues, fault \in BOOLEAN : OnMessage_Status(now, fault)
    \/ \E now \in NowValues, fault \in BOOLEAN : OnMessage_Os(now, fault)
    \/ \E now \in NowValues, fail_at \in 0..MaxDrives : OnMessage_Storage(now, fail_at)
    \/ \E now \in NowValues, fault \in BOOLEAN : OnMessage_Statistics(now, fault)
    \/ OnMessage_Log

(***************************************************************************)
(* SpecConn                                                                *)
(***************************************************************************)
ConnInit ==
    /\ connected_event = FALSE
    /\ connect_rc = NoRc
    /\ desired = EmptyDict
    /\ callerpc = "idle"
    /\ callerop = "none"
    /\ woken = FALSE
    /\ rc_local = NoRc
    /\ items_caller = EmptyDict
    /\ issued = EmptyDict
    /\ sub_call = <<>>
    /\ outcome = "none"
    /\ loop = "stopped"
    /\ link = "none"
    /\ disconnecting = FALSE
    /\ disc_queued = FALSE
    /\ netpc = "idle"
    /\ cb_rc = NoRc
    /\ items_net = EmptyDict
    /\ sessions = 0
    /\ broker = EmptyDict

NextConn ==
    \/ Connect_Begin
    \/ Connect_WaitSignalled
    \/ Connect_WaitTimeout
    \/ Connect_CheckNone
    \/ Connect_CheckRc
    \/ Connect_ReadRc
    \/ Disconnect_Call
    \/ Disconnect_ClientDisconnect
    \/ Disconnect_LoopStop
    \/ \E topics \in TopicArgs, qos \in QosArgs : Subscribe_Record(topics, qos)
    \/ Subscribe_CheckEvent
    \/ Subscribe_CheckRc
    \/ Subscribe_Snapshot
    \/ Subscribe_Issue
    \/ Net_Open
    \/ \E rc \in ConnackCodes : OnConnect_SetRc(rc)
    \/ OnConnect_SetEvent
    \/ OnConnect_Snapshot
    \/ OnConnect_Issue
    \/ Net_RefusedClose
    \/ Net_Lost
    \/ Net_SendDisconnect
    \/ OnDisconnect

(***************************************************************************)
(* The signal stores called on their own: each store's ensure_from_event / *)
(* insert_from_event is handed any event, of its own subtype or not, for   *)
(* any device, and the call is recorded in store_call.                     *)
(***************************************************************************)
MaxStoreCalls == 2

\* payload.get("storage") of a packet whose keys c: and C:\ name the same drive,
\* with a key that does not normalize and a value that is no object in between
StorageObjectA ==
    JObj(<<[drive |-> <<"c", ":">>, info |-> JObj([total_gb |-> JInt(100),
                                             used_pct |-> JStr(<<"4", "0">>)])],
           [drive |-> <<"C", "C">>, info |-> JObj([total_gb |-> JInt(7)])],
           [drive |-> <<"D">>, info |-> JStr(<<"b", "u", "s", "y">>)],
           [drive |-> <<"C", ":", "\\">>, info |-> JObj([total_gb |-> JInt(50),
                                              free_gb |-> JInt(20)])]>>)

\* payload.get("storage") of a packet with a digit as a key and three drives
StorageObjectB ==
    JObj(<<[drive |-> <<"1">>, info |-> JObj([total_gb |-> JInt(7)])],
           [drive |-> <<" ", "d", " ">>, info |-> JObj([total_gb |-> JInt(10),
                                             used_gb |-> JBool(TRUE)])],
           [drive |-> <<"e", ":", "\\">>, info |-> JObj([free_gb |-> JInt(3)])],
           [drive |-> <<"F">>, info |-> JObj([total_gb |-> JInt(8)])]>>)

\* the payload of a device that reports everything in one packet
FullPayload ==
    JObj([device_status |-> JStr(<<"o", "n", "l", "i", "n", "e">>),
          device_os_version |-> JStr(<<"W", "1", "1">>),
          storage |-> StorageObjectB,
          statistics |-> JObj([total_items |-> JInt(5)])])

\* events handed to the stores: IngestEvent fields the stores read
StoreEvents ==
    { [subtype |-> <<"s", "t", "a", "t", "u", "s">>, ts_ms |-> NoneInt,
       payload |-> JObj([device_status |-> JStr(<<"o", "n", "l", "i", "n", "e">>)])],
      [subtype |-> <<"s", "t", "a", "t", "u", "s">>, ts_ms |-> 1500,
       payload |-> JObj([device_status |-> JStr(<<" ", "O", "F", "F", "L", "I", "N", "E", " ">>),
                         device_os_version |-> JStr(<<" ", "W", "1", "0", " ">>)])],
      [subtype |-> <<"s", "t", "a", "t", "u", "s">>, ts_ms |-> NoneInt,
       payload |-> JObj([device_status |-> JStr(<<"b", "u", "s", "y">>),
                         device_os_version |-> JStr(<<"W", "1", "1">>)])],
      [subtype |-> <<"s", "t", "a", "t", "u", "s">>, ts_ms |-> NoneInt,
       payload |-> JObj([device_os_version |-> JStr(<<" ", " ">>)])],
      [subtype |-> <<"s", "t", "a", "t", "u", "s">>, ts_ms |-> NoneInt, payload |-> JNone],
      [subtype |-> <<"S", "t", "a", "t", "u", "s">>, ts_ms |-> NoneInt, payload |-> FullPayload],
      [subtype |-> <<"s", "t", "a", "t", "u", "s", "/", "x">>, ts_ms |-> NoneInt, payload |-> FullPayload],
      [subtype |-> <<"s", "t", "o", "r", "a", "g", "e">>, ts_ms |-> NoneInt, payload |-> FullPayload],
      [subtype |-> <<"s", "t", "o", "r", "a", "g", "e">>, ts_ms |-> 1500,
       payload |-> JObj([storage |-> StorageObjectA])],
      [subtype |-> <<"s", "t", "o", "r", "a", "g", "e">>, ts_ms |-> NoneInt,
       payload |-> JObj([storage |-> JStr(<<"b", "u", "s", "y">>)])],
      [subtype |-> <<"s", "t", "a", "t", "i", "s", "t", "i", "c", "s">>, ts_ms |-> NoneInt, payload |-> FullPayload],
      [subtype |-> <<"s", "t", "a", "t", "i", "s", "t", "i", "c", "s">>, ts_ms |-> NoneInt,
       payload |-> JObj([statistics |-> JStr(<<"b", "u", "s", "y">>)])] }

\* number of calls recorded so far
CallNo == IF store_call = <<>> THEN 0 ELSE store_call[1].n

\* the record of a call: what it was handed, the statement whose failure made
\* it raise (fault, 0: none), how it ended (res) and, for the storage store, the
\* value it returned (NoneInt: it raised)
StoreCallRecord(store, device_id, event, fault, res, ret) ==
    <<[n |-> CallNo + 1, store |-> store, device_id |-> device_id, event |-> event,
       fault |-> fault, res |-> res, ret |-> ret]>>

\* DeviceStatusStore.ensure_from_event(event, device_id=...) lines 54-141
StatusStore_EnsureFromEvent(event, device_id, now, fault) ==
    /\ CallNo < MaxStoreCalls
    /\ LET call == StatusStoreCall(device_status, next_status_id, db_clock, event,
                                   device_id, now, fault)
       IN  /\ device_status' = call.tbl
           /\ next_status_id' = call.next_id
           /\ db_clock' = call.clock
           /\ status_res' = call.res
           /\ status_log' = status_log \o call.packet
           /\ store_call' = StoreCallRecord("status", device_id, event,
                                            IF call.res = "raised" THEN 1 ELSE 0,
                                            call.res, NoneInt)
    /\ UNCHANGED <<connVars, devices, next_device_id, db_faults, writerVars, normVars,
                   decoderVars, handleVars, lockVars, configured, osVars,
                   storageVars, statisticsVars, dispatchVars>>

\* DeviceOsStatusStore.ensure_from_event(event, device_id=...) lines 50-130
OsStore_EnsureFromEvent(event, device_id, now, fault) ==
    /\ CallNo < MaxStoreCalls
    /\ LET call == OsStoreCall(device_os_status, next_os_id, db_clock, event,
                               device_id, now, fault)
       IN  /\ device_os_status' = call.tbl
           /\ next_os_id' = call.next_id
           /\ db_clock' = call.clock
           /\ store_call' = StoreCallRecord("os", device_id, event,
                                            IF call.res = "raised" THEN 1 ELSE 0,
                                            call.res, NoneInt)
    /\ UNCHANGED <<connVars, devices, next_device_id, db_faults, writerVars, normVars,
                   decoderVars, handleVars, lockVars, configured, statusVars,
                   storageVars, statisticsVars, dispatchVars>>

\* ensure_from_event line 108 (and lines 58, 62, 66): the value returned
StorageReturn(call) ==
    IF call.res = "raised" THEN NoneInt
    ELSE IF call.res = "skipped" THEN 0
    ELSE call.packet[1].upserts

\* DeviceStorageStatusStore.ensure_from_event(event, device_id=...) lines 56-108;
\* fail_at: the upsert_drive call that raises (0: none)
StorageStore_EnsureFromEvent(event, device_id, now, fail_at) ==
    /\ CallNo < MaxStoreCalls
    /\ LET call == StorageStoreCall(device_storage_status, next_storage_id, db_clock,
                                    event, device_id, now, fail_at)
       IN  /\ device_storage_status' = call.tbl
           /\ next_storage_id' = call.next_id
           /\ db_clock' = call.clock
           /\ store_call' = StoreCallRecord("storage", device_id, event,
                                            IF call.res = "raised" THEN fail_at ELSE 0,
                                            call.res, StorageReturn(call))
    /\ UNCHANGED <<connVars, devices, next_device_id, db_faults, writerVars, normVars,
                   decoderVars, handleVars, lockVars, configured, statusVars,
                   osVars, statisticsVars, dispatchVars>>

\* DeviceStatisticsStore.insert_from_event(event, device_id=...) lines 57-116
StatisticsStore_InsertFromEvent(event, device_id, now, fault) ==
    /\ CallNo < MaxStoreCalls
    /\ LET call == StatisticsStoreCall(device_statistics, next_statistics_id, db_clock,
                                       event, device_id, now, fault)
       IN  /\ device_statistics' = call.tbl
           /\ next_statistics_id' = call.next_id
           /\ db_clock' = call.clock
           /\ stats_res' = call.res
           /\ stats_log' = stats_log \o call.packet
           /\ store_call' = StoreCallRecord("statistics", device_id, event,
                                            IF call.res = "raised" THEN 1 ELSE 0,
                                            call.res, NoneInt)
    /\ UNCHANGED <<connVars, devices, next_device_id, db_faults, writerVars, normVars,
                   decoderVars, handleVars, lockVars, configured, statusVars,
                   osVars, storageVars, dispatchVars>>

NextStores ==
    \/ \E event \in StoreEvents, device_id \in DeviceIds, now \in NowValues,
          fault \in BOOLEAN :
           StatusStore_EnsureFromEvent(event, device_id, now, fault)
    \/ \E event \in StoreEvents, device_id \in DeviceIds, now \in NowValues,
          fault \in BOOLEAN :
           OsStore_EnsureFromEvent(event, device_id, now, fault)
    \/ \E event \in StoreEvents, device_id \in DeviceIds, now \in NowValues,
          fail_at \in 0..MaxDrives :
           StorageStore_EnsureFromEvent(event, device_id, now, fail_at)
    \/ \E event \in StoreEvents, device_id \in DeviceIds, now \in NowValues,
          fault \in BOOLEAN :
           StatisticsStore_InsertFromEvent(event, device_id, now, fault)

(***************************************************************************)
(* _normalize_drive called on its own, on every short string over the      *)
(* characters that drive identifiers are made of.                          *)
(***************************************************************************)
MaxDriveLen == 3

\* a lower-case and an upper-case letter, the colon, the backslash, a digit and
\* a space
DriveChars == {"c", "D", ":", "\\", "1", " "}

\* the str values handed to _normalize_drive
DriveValues == UNION {[1..n -> DriveChars] : n \in 0..MaxDriveLen}

\* _normalize_drive(value) lines 300-325
NormalizeDrive_Call(value) ==
    /\ norm_value' = value
    /\ norm_result' = NormalizeDrive(value)
    /\ UNCHANGED <<connVars, resolverVars, statusVars, osVars, storageVars,
                   statisticsVars, store_call, decoderVars, handleVars, lockVars, configured, dispatchVars>>

NextNormalizeDrive == \E value \in DriveValues : NormalizeDrive_Call(value)

(***************************************************************************)
(* build_event (ingest_models.py) called on its own, once, on a message    *)
(* whose topic is any short sequence of segments, empty ones included, and *)
(* whose body is empty, no JSON, JSON that is no object, or an object.     *)
(***************************************************************************)
MaxSegments == 6

\* what stands between two slashes of a topic
DecoderSegments == {<<>>, <<"a">>, <<"b", "c">>}

\* str(msg.topic)
DecoderTopics ==
    {JoinSlash(segs) : segs \in UNION {[1..k -> DecoderSegments] : k \in 1..MaxSegments}}

\* msg.payload
DecoderPayloads ==
    { [enc |-> "empty"],
      [enc |-> "garbage"],
      [enc |-> "json", v |-> JInt(1)],
      [enc |-> "json", v |-> JStr(<<"S", "1">>)],
      [enc |-> "json", v |-> JObj([serial_number |-> JStr(<<"S", "1">>), ts |-> JInt(1500)])] }

\* build_event(topic=..., payload_bytes=..., qos=..., retain=...) lines 143-173
BuildEvent_Call(msg) ==
    /\ decoder_msg = <<>>
    /\ decoder_msg' = <<msg>>
    /\ decoder_event' = BuildEvent(msg)
    /\ UNCHANGED <<connVars, resolverVars, statusVars, osVars, storageVars,
                   statisticsVars, store_call, normVars, handleVars, lockVars, configured, dispatchVars>>

NextDecoder ==
    \E topic \in DecoderTopics, payload \in DecoderPayloads :
        BuildEvent_Call([topic |-> topic, payload |-> payload, qos |-> 1,
                         retain |-> FALSE])

(***************************************************************************)
(* The database handles.  main.py (lines 48-53) builds one MSSQLConnector  *)
(* and hands it to the five stores.  Every store keeps the handle it got   *)
(* in self._conn and asks for it through _get_conn at the start of every   *)
(* operation that touches the database.  A handle is "open" while it is    *)
(* usable, "broken" once the server or the network has dropped it, and     *)
(* "closed" once close() has succeeded on it.                              *)
(***************************************************************************)
MaxHandles == 3

StoreNames == <<"device", "status", "os", "storage", "statistics">>

StoreSet == {StoreNames[i] : i \in 1..Len(StoreNames)}

\* the place of a store in the order main() builds and closes them, which
\* is the order _on_message calls them in
StoreRank(store) == CHOOSE i \in 1..Len(StoreNames) : StoreNames[i] = store

\* Variant of ConnectorConnect that hands out the first handle again once it
\* exists, as a connector that caches its connection would.
ConnectorConnect_Cached(handles, store) ==
    IF handles = <<>>
    THEN [handles |-> Append(handles, [by |-> store, status |-> "open"]), conn |-> 1]
    ELSE [handles |-> handles, conn |-> 1]

\* MSSQLConnector.connect, db_client.py lines 36-62, when it does not raise:
\* pyodbc.connect builds a new connection on every call.
ConnectorConnect(handles, store) ==
    [handles |-> Append(handles, [by |-> store, status |-> "open"]),
     conn |-> Len(handles) + 1]

\* close() of a store, device_store.py lines 40-47 (the other stores alike):
\* self._conn.close() with its exception swallowed.  Closing a broken handle
\* may raise, which leaves the handle as it is.
StoreClose(handles, cached, close_raises) ==
    IF cached = 0 THEN handles
    ELSE IF close_raises /\ handles[cached].status = "broken" THEN handles
    ELSE [handles EXCEPT ![cached].status = "closed"]

\* Variant of GetConn that replaces a handle whose probe failed without closing it.
GetConn_NoClose(handles, cached, store, connect_raises, probe_raises, close_raises) ==
    IF cached = 0
    THEN IF connect_raises
         THEN [handles |-> handles, conn |-> 0, ret |-> 0, path |-> "first",
               probe |-> "none", closing |-> "none"]
         ELSE [handles |-> ConnectorConnect(handles, store).handles,
               conn |-> ConnectorConnect(handles, store).conn,
               ret |-> ConnectorConnect(handles, store).conn, path |-> "first",
               probe |-> "none", closing |-> "none"]
    ELSE IF ~probe_raises
    THEN [handles |-> handles, conn |-> cached, ret |-> cached, path |-> "reused",
          probe |-> "passed", closing |-> "none"]
    ELSE IF connect_raises
    THEN [handles |-> handles, conn |-> cached, ret |-> 0, path |-> "replaced",
          probe |-> "failed", closing |-> "none"]
    ELSE [handles |-> ConnectorConnect(handles, store).handles,
          conn |-> ConnectorConnect(handles, store).conn,
          ret |-> ConnectorConnect(handles, store).conn, path |-> "replaced",
          probe |-> "failed", closing |-> "none"]

\* _get_conn, device_store.py lines 133-144 (the other stores alike).
\* cached: self._conn on entry.  ret: the handle returned (0: the call raised,
\* which only connect() can make it do).  conn: self._conn on exit.
GetConn(handles, cached, store, connect_raises, probe_raises, close_raises) ==
    IF cached = 0
    THEN IF connect_raises
         THEN [handles |-> handles, conn |-> 0, ret |-> 0, path |-> "first",
               probe |-> "none", closing |-> "none"]
         ELSE [handles |-> ConnectorConnect(handles, store).handles,
               conn |-> ConnectorConnect(handles, store).conn,
               ret |-> ConnectorConnect(handles, store).conn, path |-> "first",
               probe |-> "none", closing |-> "none"]
    ELSE IF ~probe_raises
    THEN [handles |-> handles, conn |-> cached, ret |-> cached, path |-> "reused",
          probe |-> "passed", closing |-> "none"]
    ELSE IF connect_raises
    THEN [handles |-> StoreClose(handles, cached, close_raises), conn |-> 0, ret |-> 0,
          path |-> "replaced", probe |-> "failed",
          closing |-> IF StoreClose(handles, cached, close_raises) = handles
                      THEN "raised" ELSE "closed"]
    ELSE [handles |-> ConnectorConnect(StoreClose(handles, cached, close_raises),
                                       store).handles,
          conn |-> ConnectorConnect(StoreClose(handles, cached, close_raises),
                                    store).conn,
          ret |-> ConnectorConnect(StoreClose(handles, cached, close_raises),
                                   store).conn,
          path |-> "replaced", probe |-> "failed",
          closing |-> IF StoreClose(handles, cached, close_raises) = handles
                      THEN "raised" ELSE "closed"]

\* One operation of a store that touches the database (upsert_device,
\* device_store.py line 77; ensure_from_event of the status, OS and storage
\* stores; insert_from_event of the statistics store): conn = self._get_conn(),
\* then the statements on conn, which raise when conn is broken.
Store_Operation(store, connect_raises, probe_raises, close_raises) ==
    /\ ~stopped
    \* the probe runs only on a cached handle, close() only after a failed probe,
    \* and connect() only when there is no handle or the probe failed
    /\ probe_raises => store_conn[store] # 0
    /\ close_raises => probe_raises /\ db_handles[store_conn[store]].status = "broken"
    /\ connect_raises => store_conn[store] = 0 \/ probe_raises
    /\ (store_conn[store] = 0 \/ probe_raises) =>
           connect_raises \/ Len(db_handles) < MaxHandles
    /\ LET got == GetConn(db_handles, store_conn[store], store, connect_raises,
                          probe_raises, close_raises)
       IN  /\ db_handles' = got.handles
           /\ store_conn' = [store_conn EXCEPT ![store] = got.conn]
           /\ conn_call' = <<[store |-> store, cached |-> store_conn[store],
                              path |-> got.path, probe |-> got.probe,
                              closing |-> got.closing, ret |-> got.ret,
                              outcome |-> IF got.ret = 0 THEN "connect_raised"
                                          ELSE IF got.handles[got.ret].status = "open"
                                          THEN "ran" ELSE "handle_raised"]>>
    /\ UNCHANGED <<stopped, connVars, resolverVars, statusVars, osVars, storageVars,
                   statisticsVars, store_call, normVars, decoderVars, lockVars,
                   configured, dispatchVars>>

\* The server or the network drops a connection.
Handle_Breaks(h) ==
    /\ ~stopped
    /\ h \in 1..Len(db_handles)
    /\ db_handles[h].status = "open"
    /\ db_handles' = [db_handles EXCEPT ![h].status = "broken"]
    /\ UNCHANGED <<store_conn, conn_call, stopped, connVars, resolverVars, statusVars,
                   osVars, storageVars, statisticsVars, store_call, normVars,
                   decoderVars, lockVars, configured, dispatchVars>>

\* close() of the first k stores in the order of main.py lines 115-124
RECURSIVE CloseStores(_, _, _, _)
CloseStores(handles, conns, k, close_raises) ==
    IF k = 0 THEN handles
    ELSE StoreClose(CloseStores(handles, conns, k - 1, close_raises),
                    conns[StoreNames[k]], close_raises)

\* the finally block of main(), main.py lines 113-124: every store is closed
Main_Finally(close_raises) ==
    /\ ~stopped
    /\ stopped' = TRUE
    /\ db_handles' = CloseStores(db_handles, store_conn, Len(StoreNames), close_raises)
    /\ store_conn' = [s \in StoreSet |-> 0]
    /\ UNCHANGED <<conn_call, connVars, resolverVars, statusVars, osVars, storageVars,
                   statisticsVars, store_call, normVars, decoderVars, lockVars,
                   configured, dispatchVars>>

\* the stores as main.py lines 49-53 built them: self._conn = None
HandlesInit ==
    /\ db_handles = <<>>
    /\ store_conn = [s \in StoreSet |-> 0]
    /\ conn_call = <<>>
    /\ stopped = FALSE

NextHandles ==
    \/ \E store \in StoreSet, connect_raises \in BOOLEAN, probe_raises \in BOOLEAN,
          close_raises \in BOOLEAN :
            Store_Operation(store, connect_raises, probe_raises, close_raises)
    \/ \E h \in 1..MaxHandles : Handle_Breaks(h)
    \/ \E close_raises \in BOOLEAN : Main_Finally(close_raises)

(***************************************************************************)
(* The subscriptions mutex.  subscribe() on the caller's thread and         *)
(* _on_connect on the network thread of a connected connector, statement   *)
(* by statement around self._subscriptions_lock: the with-block of         *)
(* subscribe() (lines 160-163), the with-block of                          *)
(* _subscribe_desired_subscriptions (lines 170-171), and the SUBSCRIBE     *)
(* loop after it (lines 176-183).                                          *)
(***************************************************************************)
MaxLockCalls == 2

LockThreads == {"caller", "net"}

\* topics and qos arguments of subscribe()
LockTopicArgs == { <<TopicA>>, <<TopicB, TopicA>>, << <<" ">> >> }

LockQosArgs == {0, 2}

connNotLock == <<callerpc, callerop, woken, rc_local, sub_call, outcome, loop, link,
                 disconnecting, disc_queued, netpc, cb_rc, sessions>>

storesNotLock == <<resolverVars, statusVars, osVars, storageVars, statisticsVars,
                   store_call, normVars, decoderVars, handleVars, configured,
                   dispatchVars>>

\* the local items of _subscribe_desired_subscriptions on the thread named
ItemsOf(t) == IF t = "caller" THEN items_caller ELSE items_net

\* subscribe() lines 148-158: normalise the topics; return when none is left
Lk_Subscribe_Begin(topics, qos) ==
    /\ lk_pc["caller"] = "idle"
    /\ lk_calls["caller"] < MaxLockCalls
    /\ lk_calls' = [lk_calls EXCEPT !["caller"] = @ + 1]
    /\ IF NormalizeTopics(topics) = <<>>
       THEN UNCHANGED <<lk_pc, lk_pending>>
       ELSE /\ lk_pending' = [topics |-> NormalizeTopics(topics), qos |-> ClampQos(qos)]
            /\ lk_pc' = [lk_pc EXCEPT !["caller"] = "s_acq"]
    /\ issued' = EmptyDict
    /\ UNCHANGED <<lock_owner, desired, items_caller, items_net, connected_event,
                   connect_rc, broker, connNotLock, storesNotLock>>

\* Variant of Lk_Acquire that enters the block without waiting for the mutex.
Lk_Acquire_NoWait(t) ==
    /\ lk_pc[t] \in {"s_acq", "d_acq"}
    /\ lock_owner' = t
    /\ lk_pc' = [lk_pc EXCEPT ![t] = IF lk_pc[t] = "s_acq" THEN "s_write" ELSE "d_read"]
    /\ UNCHANGED <<lk_calls, lk_pending, desired, items_caller, issued, items_net,
                   connected_event, connect_rc, broker, connNotLock, storesNotLock>>

\* "with self._subscriptions_lock:" lines 160 and 170: Lock.acquire() returns
\* once no thread holds the mutex
Lk_Acquire(t) ==
    /\ lk_pc[t] \in {"s_acq", "d_acq"}
    /\ lock_owner = "none"
    /\ lock_owner' = t
    /\ lk_pc' = [lk_pc EXCEPT ![t] = IF lk_pc[t] = "s_acq" THEN "s_write" ELSE "d_read"]
    /\ UNCHANGED <<lk_calls, lk_pending, desired, items_caller, issued, items_net,
                   connected_event, connect_rc, broker, connNotLock, storesNotLock>>

\* subscribe() lines 161-163: self._desired_subscriptions[topic] = qos_int, one
\* topic per step
Lk_Subscribe_Write ==
    /\ lk_pc["caller"] = "s_write"
    /\ desired' = DictPut(desired, Head(lk_pending.topics), lk_pending.qos)
    /\ lk_pending' = [lk_pending EXCEPT !.topics = Tail(lk_pending.topics)]
    /\ lk_pc' = [lk_pc EXCEPT !["caller"] =
                    IF Tail(lk_pending.topics) = <<>> THEN "s_rel" ELSE "s_write"]
    /\ UNCHANGED <<lock_owner, lk_calls, items_caller, issued, items_net, connected_event,
                   connect_rc, broker, connNotLock, storesNotLock>>

\* _subscribe_desired_subscriptions line 171: items = list(self._desired_subscriptions.items())
Lk_Desired_Read(t) ==
    /\ lk_pc[t] = "d_read"
    /\ items_caller' = IF t = "caller" THEN desired ELSE items_caller
    /\ items_net' = IF t = "net" THEN desired ELSE items_net
    /\ lk_pc' = [lk_pc EXCEPT ![t] = "d_rel"]
    /\ UNCHANGED <<lock_owner, lk_calls, lk_pending, desired, issued, connected_event,
                   connect_rc, broker, connNotLock, storesNotLock>>

\* the end of a with-block: Lock.release(); then line 166 of subscribe(), or
\* lines 173-174 of _subscribe_desired_subscriptions (if not items: return)
Lk_Release(t) ==
    /\ lk_pc[t] \in {"s_rel", "d_rel"}
    /\ lock_owner' = "none"
    /\ lk_pc' = [lk_pc EXCEPT ![t] =
                    IF lk_pc[t] = "s_rel" THEN "s_chk"
                    ELSE IF DOMAIN ItemsOf(t) = {} THEN "idle" ELSE "d_send"]
    /\ UNCHANGED <<lk_calls, lk_pending, desired, items_caller, issued, items_net,
                   connected_event, connect_rc, broker, connNotLock, storesNotLock>>

\* subscribe() lines 166-167: if connected, _subscribe_desired_subscriptions()
Lk_Subscribe_Check ==
    /\ lk_pc["caller"] = "s_chk"
    /\ lk_pc' = [lk_pc EXCEPT !["caller"] =
                    IF connected_event /\ connect_rc = 0 THEN "d_acq" ELSE "idle"]
    /\ UNCHANGED <<lock_owner, lk_calls, lk_pending, desired, items_caller, issued, items_net,
                   connected_event, connect_rc, broker, connNotLock, storesNotLock>>

\* _subscribe_desired_subscriptions lines 176-183: client.subscribe per item
Lk_Desired_Send(t) ==
    /\ lk_pc[t] = "d_send"
    /\ broker' = SendSubscribes(broker, ItemsOf(t))
    /\ items_caller' = IF t = "caller" THEN EmptyDict ELSE items_caller
    /\ issued' = IF t = "caller" THEN items_caller ELSE issued
    /\ items_net' = IF t = "net" THEN EmptyDict ELSE items_net
    /\ lk_pc' = [lk_pc EXCEPT ![t] = "idle"]
    /\ UNCHANGED <<lock_owner, lk_calls, lk_pending, desired, connected_event,
                   connect_rc, connNotLock, storesNotLock>>

\* _on_connect lines 203-214 for the CONNACK of a reconnect: store rc, set the
\* event, and for rc 0 go on to _subscribe_desired_subscriptions
Lk_OnConnect(rc) ==
    /\ lk_pc["net"] = "idle"
    /\ lk_calls["net"] < MaxLockCalls
    /\ lk_calls' = [lk_calls EXCEPT !["net"] = @ + 1]
    /\ connect_rc' = rc
    /\ connected_event' = TRUE
    /\ lk_pc' = [lk_pc EXCEPT !["net"] = IF rc = 0 THEN "d_acq" ELSE "idle"]
    /\ UNCHANGED <<lock_owner, lk_pending, desired, items_caller, issued, items_net, broker,
                   connNotLock, storesNotLock>>

\* _on_disconnect line 224: self._connected_event.clear()
Lk_OnDisconnect ==
    /\ lk_pc["net"] = "idle"
    /\ connected_event
    /\ connected_event' = FALSE
    /\ UNCHANGED <<lockVars, connect_rc, desired, items_caller, issued, items_net, broker,
                   connNotLock, storesNotLock>>

\* __init__ line 99: the mutex is free; no call is under way
LockInit ==
    /\ lock_owner = "none"
    /\ lk_pc = [t \in LockThreads |-> "idle"]
    /\ lk_calls = [t \in LockThreads |-> 0]
    /\ lk_pending = [topics |-> <<>>, qos |-> 0]

\* the steps a thread takes once it is inside a call
LockProgress ==
    \/ \E t \in LockThreads : Lk_Acquire(t)
    \/ Lk_Subscribe_Write
    \/ \E t \in LockThreads : Lk_Desired_Read(t)
    \/ \E t \in LockThreads : Lk_Release(t)
    \/ Lk_Subscribe_Check
    \/ \E t \in LockThreads : Lk_Desired_Send(t)

NextLock ==
    \/ \E topics \in LockTopicArgs, qos \in LockQosArgs : Lk_Subscribe_Begin(topics, qos)
    \/ \E t \in LockThreads : Lk_Acquire(t)
    \/ Lk_Subscribe_Write
    \/ \E t \in LockThreads : Lk_Desired_Read(t)
    \/ \E t \in LockThreads : Lk_Release(t)
    \/ Lk_Subscribe_Check
    \/ \E t \in LockThreads : Lk_Desired_Send(t)
    \/ \E rc \in ConnackCodes : Lk_OnConnect(rc)
    \/ Lk_OnDisconnect

\* the tables, the handles and the callback before the first message
TablesInit ==
    /\ ResolverInit
    /\ StatusInit
    /\ OsInit
    /\ StorageInit
    /\ StatisticsInit
    /\ store_call = <<>>
    /\ norm_value = <<>>
    /\ norm_result = NoneStr
    /\ decoder_msg = <<>>
    /\ decoder_event = <<>>
    /\ HandlesInit
    /\ LockInit
    /\ DispatchVarsInit

\* main.py lines 48-53 with DB_ENABLE set: all five stores are built
StoresInit == TablesInit /\ configured = StoreSet

\* MQTTConnector.__init__ lines 46-63: every store is optional.  main.py
\* builds all five or none; a connector with signal stores but no resolver is a
\* construction the class allows.
StoreConfigurations == {StoreSet, StoreSet \ {"device"}, {}}

(***************************************************************************)
(* The shutdown.  A connected connector whose stores hold a handle each    *)
(* dispatches messages while main() reaches its finally block (main.py     *)
(* lines 113-124): connector.disconnect(), then close() of every store.    *)
(***************************************************************************)
\* the handles of the five stores while the service runs: one each, open
ServingHandles ==
    /\ db_handles = [i \in 1..Len(StoreNames) |-> [by |-> StoreNames[i], status |-> "open"]]
    /\ store_conn = [s \in StoreSet |-> StoreRank(s)]
    /\ conn_call = <<>>
    /\ stopped = FALSE

\* main.py line 114: connector.disconnect() is called, once
Finally_Disconnect ==
    /\ ~disconnecting
    /\ ~stopped
    /\ Disconnect_Call

\* Variant of Finally_CloseStores that closes the stores on entry to the
\* finally block, before connector.disconnect().
Finally_CloseStores_First(close_raises) ==
    /\ ~stopped
    /\ callerpc = "idle"
    /\ ~disconnecting
    /\ stopped' = TRUE
    /\ db_handles' = CloseStores(db_handles, store_conn, Len(StoreNames), close_raises)
    /\ store_conn' = [s \in StoreSet |-> 0]
    /\ UNCHANGED <<conn_call, connVars, resolverVars, statusVars, osVars, storageVars,
                   statisticsVars, store_call, normVars, decoderVars, lockVars,
                   configured, dispatchVars>>

\* main.py lines 115-124, reached when connector.disconnect() has returned:
\* close() of every store
Finally_CloseStores(close_raises) ==
    /\ ~stopped
    /\ callerpc = "idle"
    /\ disconnecting
    /\ stopped' = TRUE
    /\ db_handles' = CloseStores(db_handles, store_conn, Len(StoreNames), close_raises)
    /\ store_conn' = [s \in StoreSet |-> 0]
    /\ UNCHANGED <<conn_call, connVars, resolverVars, statusVars, osVars, storageVars,
                   statisticsVars, store_call, normVars, decoderVars, lockVars,
                   configured, dispatchVars>>

NextShutdown ==
    \/ NextDispatch
    \/ Finally_Disconnect
    \/ Disconnect_ClientDisconnect
    \/ Net_SendDisconnect
    \/ OnDisconnect
    \/ Disconnect_LoopStop
    \/ \E close_raises \in BOOLEAN : Finally_CloseStores(close_raises)

Init == ConnInit /\ StoresInit

\* The connector once main.py (lines 64-87) has connected it and subscribed it
\* to its topic: a state SpecConn reaches, in which messages start to arrive.
ConnectedInit ==
    /\ connected_event = TRUE
    /\ connect_rc = 0
    /\ desired = DictPut(EmptyDict, TopicA, 1)
    /\ callerpc = "idle"
    /\ callerop = "none"
    /\ woken = TRUE
    /\ rc_local = NoRc
    /\ items_caller = EmptyDict
    /\ issued = DictPut(EmptyDict, TopicA, 1)
    /\ sub_call = <<[topics |-> <<TopicA>>, qos |-> 1]>>
    /\ outcome = "returned"
    /\ loop = "running"
    /\ link = "session"
    /\ disconnecting = FALSE
    /\ disc_queued = FALSE
    /\ netpc = "idle"
    /\ cb_rc = 0
    /\ items_net = EmptyDict
    /\ sessions = 1
    /\ broker = DictPut(EmptyDict, TopicA, 1)

DispatchInit == ConnectedInit /\ StoresInit

\* the same connector under each configuration of its stores
GatingInit == ConnectedInit /\ TablesInit /\ configured \in StoreConfigurations

\* the same connector when its stores hold their handles
ShutdownInit ==
    /\ ConnectedInit
    /\ ResolverInit
    /\ StatusInit
    /\ OsInit
    /\ StorageInit
    /\ StatisticsInit
    /\ store_call = <<>>
    /\ norm_value = <<>>
    /\ norm_result = NoneStr
    /\ decoder_msg = <<>>
    /\ decoder_event = <<>>
    /\ ServingHandles
    /\ LockInit
    /\ configured = StoreSet
    /\ DispatchVarsInit

SpecConn == Init /\ [][NextConn]_vars

SpecResolver == Init /\ [][NextResolver]_vars

SpecStatus == Init /\ [][NextStatus]_vars

SpecTimestamp == Init /\ [][NextTimestamp]_vars

SpecStatistics == Init /\ [][NextStatistics]_vars

SpecDispatch == DispatchInit /\ [][NextDispatch]_vars

SpecStores == Init /\ [][NextStores]_vars

SpecGating == GatingInit /\ [][NextDispatch]_vars

SpecNormalizeDrive == Init /\ [][NextNormalizeDrive]_vars

SpecDecoder == Init /\ [][NextDecoder]_vars

SpecHandles == Init /\ [][NextHandles]_vars

\* both threads are scheduled: a thread inside a call goes on when it can
SpecLock == DispatchInit /\ [][NextLock]_vars /\ WF_vars(LockProgress)

SpecShutdown == ShutdownInit /\ [][NextShutdown]_vars


(***************************************************************************)
(* Properties of the connection manager (SpecConn).                        *)
(***************************************************************************)
NetStep == netpc' # netpc

\* C1: every _on_connect with rc = 0, first connection or reconnect alike, takes
\* the whole desired set under the lock and issues a SUBSCRIBE for each of its
\* topics at the stored qos; an _on_connect with rc # 0 issues none.
C1_ResubscribeOnEveryConnect ==
    [][ /\ (netpc = "oc_set" /\ NetStep) =>
               netpc' = IF cb_rc = 0 THEN "oc_snap" ELSE "oc_refused"
        /\ (netpc = "oc_snap" /\ NetStep) =>
               /\ items_net' = desired
               /\ (DOMAIN desired # {}) => netpc' = "oc_issue"
        /\ (netpc = "oc_issue" /\ NetStep) =>
               /\ link = "session"
               /\ \A t \in DOMAIN items_net :
                      t \in DOMAIN broker' /\ broker'[t] = items_net[t]
        /\ (netpc \in {"oc_set", "oc_refused"} /\ cb_rc # 0 /\ NetStep) =>
               /\ broker' = broker
               /\ netpc' \notin {"oc_snap", "oc_issue"}
      ]_vars

\* C1 witness: a reconnect the connector did not request (the second connection
\* under one connect() that returned) has resubscribed the whole desired set.
C1_Witness ==
    /\ sessions = 2
    /\ outcome = "returned"
    /\ link = "session"
    /\ netpc = "idle"
    /\ callerpc = "idle"
    /\ DOMAIN desired = {TopicA, TopicB}
    /\ broker = desired

\* C2: no subscription is lost: whenever a session is established, its
\* _on_connect has returned and no subscribe() call is under way, a SUBSCRIBE
\* of the current session was issued for every topic of the desired set.
C2_NoSubscriptionLost ==
    (link = "session" /\ netpc = "idle" /\ callerop # "subscribe") =>
        \A t \in DOMAIN desired : t \in DOMAIN broker

\* C2 witness: a topic recorded by subscribe() while the connection was down
\* (the call returned without issuing anything) is subscribed in the session
\* established afterwards.
C2_Witness ==
    /\ sessions = 2
    /\ link = "session"
    /\ netpc = "idle"
    /\ callerop = "none"
    /\ TopicB \in DOMAIN broker
    /\ items_caller = EmptyDict
    /\ outcome = "returned"

ConnectRaised == outcome \in {"timeout", "unknown", "refused"}

RowsOfSerial(serial_number) ==
    {i \in 1..Len(devices) : devices[i].serial_number = serial_number}

\* C6: in every reachable state, racing writers included, dbo.devices holds at
\* most one row per serial number.
C6_OneRowPerSerial ==
    \A i, j \in 1..Len(devices) :
        devices[i].serial_number = devices[j].serial_number => i = j

\* C6 witness: two writers both selected no row for the same serial; one of them
\* inserted it and the other one's INSERT failed on the unique index.
C6_Witness ==
    /\ wpc[1] = "done" /\ wres[1] # <<>> /\ wres[1][1].created
    /\ wpc[2] = "reselect" /\ winsert_failed[2]
    /\ wargs[1].serial_number = wargs[2].serial_number
    /\ db_faults = 0
    /\ Cardinality(RowsOfSerial(wargs[2].serial_number)) = 1

\* C7 as stated: a call whose INSERT failed goes on to the second select, does not
\* raise on account of the failed INSERT (only a later statement's own failure
\* may leave it), and returns the identity the second select found.
C7_FailedInsertNeverRaises ==
    \A w \in Writers :
        winsert_failed[w] =>
            /\ wpc[w] = "raised" => wexc[w] \in {"reselect", "update"}
            /\ wpc[w] = "done" =>
                   /\ wres[w] # <<>>
                   /\ \E i \in RowsOfSerial(wargs[w].serial_number) :
                          devices[i].id = wres[w][1].device_id

\* C7 as amended: the INSERT's own exception never leaves the call; the call goes
\* on to the second select, and when it returns it returns created=False with the
\* id of the row that holds the serial; it raises only from the second select
\* (no row found, or the select failed) or from the UPDATE.
C7_FailedInsertReselects ==
    \A w \in Writers :
        winsert_failed[w] =>
            /\ wexc[w] # "insert"
            /\ wpc[w] \in {"reselect", "update", "done", "raised"}
            /\ wpc[w] = "raised" => wexc[w] \in {"no_row", "reselect", "update"}
            /\ wpc[w] = "done" =>
                   /\ wres[w] # <<>>
                   /\ ~wres[w][1].created
                   /\ \E i \in RowsOfSerial(wargs[w].serial_number) :
                          devices[i].id = wres[w][1].device_id

\* C7 witness: a call whose INSERT failed returned the identity found by the
\* second select.
C7_Witness ==
    \E w \in Writers :
        /\ winsert_failed[w]
        /\ wpc[w] = "done"
        /\ wres[w] # <<>>
        /\ ~wres[w][1].created

\* C8: a call that returns after the same writer's previous call returned for the
\* same serial and the same descriptive fields returns the same device id, with
\* created=False.
C8_EnsureIdempotent ==
    \A w \in Writers :
        (wpc[w] = "done" /\ wlast[w] # <<>> /\ wlast[w][1].args = wargs[w]) =>
            /\ wres[w][1].device_id = wlast[w][1].res.device_id
            /\ ~wres[w][1].created

\* C8 witness: the first call created the identity, the second call with the same
\* arguments has returned.
C8_Witness ==
    \E w \in Writers :
        /\ wpc[w] = "done"
        /\ wlast[w] # <<>>
        /\ wlast[w][1].args = wargs[w]
        /\ wlast[w][1].res.created
        /\ wres[w] # <<>>

(***************************************************************************)
(* Properties of the status store (SpecStatus).                            *)
(***************************************************************************)
\* the status packets written for a device, in order
PacketsOf(device_id) == SelectSeq(status_log, LAMBDA p : p.device_id = device_id)

\* index of the first packet of the run of offline packets that ends ps
RunStart(ps) ==
    CHOOSE i \in 1..Len(ps) :
        /\ \A j \in i..Len(ps) : ps[j].status = <<"o", "f", "f", "l", "i", "n", "e">>
        /\ i = 1 \/ ps[i - 1].status # <<"o", "f", "f", "l", "i", "n", "e">>

\* C4: after any sequence of status packets applied to a device, its row carries
\* the status of the last packet; if that is offline, offline_since is the
\* timestamp of the first packet of the current uninterrupted run of offline
\* packets (later offline packets do not overwrite it), and if it is online,
\* offline_since is null.
C4_StickyOfflineSince ==
    \A i \in 1..Len(device_status) :
        LET r == device_status[i]
            ps == PacketsOf(r.device_id)
        IN  /\ ps # <<>>
            /\ r.status = ps[Len(ps)].status
            /\ r.offline_since = IF r.status = <<"o", "f", "f", "l", "i", "n", "e">>
                                 THEN ps[RunStart(ps)].ts_datetime
                                 ELSE NoneInt

\* a device went online, offline, offline again at another time, and its row
\* still carries the time of the first offline packet
C4_Witness ==
    \E i \in 1..Len(device_status) :
        LET ps == PacketsOf(device_status[i].device_id)
        IN  /\ Len(ps) = 3
            /\ ps[1].status = <<"o", "n", "l", "i", "n", "e">>
            /\ ps[2].status = <<"o", "f", "f", "l", "i", "n", "e">>
            /\ ps[3].status = <<"o", "f", "f", "l", "i", "n", "e">>
            /\ ps[3].ts_datetime # ps[2].ts_datetime
            /\ device_status[i].offline_since = ps[2].ts_datetime

\* C5: in every reachable state every status row has offline_since non-null
\* exactly when its status is offline.
C5_OfflineSinceIffOffline ==
    \A i \in 1..Len(device_status) :
        (device_status[i].offline_since # NoneInt)
            <=> (device_status[i].status = <<"o", "f", "f", "l", "i", "n", "e">>)

\* an update has just left one row offline with its offline_since and another
\* row online without
C5_Witness ==
    /\ status_res = "updated"
    /\ \E i, j \in 1..Len(device_status) :
          /\ device_status[i].status = <<"o", "f", "f", "l", "i", "n", "e">>
          /\ device_status[i].offline_since # NoneInt
          /\ device_status[j].status = <<"o", "n", "l", "i", "n", "e">>
          /\ device_status[j].offline_since = NoneInt

(***************************************************************************)
(* Properties of the statistics store (SpecStatistics).                    *)
(***************************************************************************)
\* the accepted packets whose INSERT was executed, in order
InsertedPackets == SelectSeq(stats_log, LAMBDA p : p.inserted)

\* C9: the statistics table is exactly the accepted packets whose INSERT was
\* executed, one row each in arrival order under ids of their own: N such
\* packets of a device leave N rows for it, and no row is ever changed or
\* removed, even by a packet equal to an earlier one.
C9_StatisticsAppendOnly ==
    /\ Len(device_statistics) = Len(InsertedPackets)
    /\ \A i \in 1..Len(device_statistics) :
          /\ device_statistics[i].device_id = InsertedPackets[i].device_id
          /\ device_statistics[i].ts_epoch = InsertedPackets[i].ts_epoch
          /\ device_statistics[i].counters = InsertedPackets[i].counters
    /\ \A i, j \in 1..Len(device_statistics) :
          i # j => device_statistics[i].id # device_statistics[j].id
    /\ \A d \in DeviceIds :
          Cardinality({i \in 1..Len(device_statistics) :
                          device_statistics[i].device_id = d})
              = Cardinality({i \in 1..Len(InsertedPackets) :
                                InsertedPackets[i].device_id = d})

\* two equal packets of one device have left two rows
C9_Witness ==
    /\ stats_res = "inserted"
    /\ \E i, j \in 1..Len(device_statistics) :
          /\ i < j
          /\ device_statistics[i].device_id = device_statistics[j].device_id
          /\ device_statistics[i].ts_datetime = device_statistics[j].ts_datetime
          /\ device_statistics[i].counters = device_statistics[j].counters
          /\ device_statistics[i].counters.total_items = 5

(***************************************************************************)
(* Properties of the dispatch (SpecDispatch).                              *)
(***************************************************************************)
\* the stores the dispatch called for the last message
InvokedStores == {invoked[i].store : i \in 1..Len(invoked)}

\* C3: when a signal store raised during a message, every signal store of the
\* event's subtype was still invoked, the log line was written, the callback
\* returned normally and the network thread goes on to the next message.
C3_StoreFailureContained ==
    (dpc = "idle" /\ raised_in \cap SignalStores # {}) =>
        /\ ApplicableStores(last_event[1].subtype) \subseteq InvokedStores
        /\ logged \notin {"none", "nothing"}
        /\ cb_outcome = "returned"
        /\ loop = "running"

(***************************************************************************)
(* Further properties of the connection manager (SpecConn).                *)
(***************************************************************************)
CallerStep == callerpc' # callerpc

\* C11: connect() leaves its wait only signalled (set() was called since the call
\* began) or timed out, and without a signal only timed out; it returns normally
\* only with a signal and the code 0 stored by a CONNACK of this call; a wait
\* that timed out ends in the timeout error; a stored code other than 0 read at
\* the check ends in the connection error; the code is never unknown once the
\* wait was signalled.
C11_ConnectOutcome ==
    [][ /\ (callerpc = "wait" /\ CallerStep) =>
               \/ woken /\ callerpc' = "chk_none"
               \/ (~woken \/ ~connected_event) /\ callerpc' = "to_disc1"
        /\ (callerpc = "chk_none" /\ CallerStep) =>
               connect_rc # NoRc /\ callerpc' = "chk_rc"
        /\ (callerpc = "chk_rc" /\ CallerStep) =>
               IF connect_rc = 0
               THEN woken /\ outcome' = "returned" /\ callerpc' = "idle"
               ELSE callerpc' = "rf_read" /\ outcome' = outcome
        /\ (callerpc = "to_disc2" /\ CallerStep) => outcome' = "timeout"
        /\ (callerpc = "rf_disc2" /\ CallerStep) => outcome' = "refused"
        /\ (outcome' # outcome) =>
               \/ outcome' = "none" /\ callerpc = "idle" /\ callerpc' = "wait"
               \/ outcome' = "returned" /\ callerpc = "chk_rc"
               \/ outcome' = "timeout" /\ callerpc = "to_disc2"
               \/ outcome' = "refused" /\ callerpc = "rf_disc2"
      ]_vars

\* C11 witness: connect() raised the connection error for a refused CONNACK while
\* the library had already closed that connection.
C11_Witness ==
    /\ outcome = "refused"
    /\ rc_local = 5
    /\ connect_rc = 5
    /\ woken
    /\ callerpc = "idle"
    /\ sessions = 1

\* C12: a subscribe() call that reads the connector as not connected (event not
\* set, or stored code other than 0, line 166) has recorded its topics and
\* returns without handing any SUBSCRIBE to the client; a call that reads it as
\* connected snapshots the desired set, which holds its topics, and hands a
\* SUBSCRIBE for each to the client before it returns, so that with the session
\* established the broker holds them at the stored qos.
C12_SubscribeQueuedOrImmediate ==
    [][ /\ (callerpc = "idle" /\ callerpc' = "s_chk_event") =>
               /\ DOMAIN desired' # {}
               /\ broker' = broker
        /\ (callerpc = "s_chk_event" /\ CallerStep) =>
               /\ broker' = broker
               /\ desired' = desired
               /\ IF connected_event THEN callerpc' = "s_chk_rc"
                  ELSE callerpc' = "idle" /\ callerop' = "none"
        /\ (callerpc = "s_chk_rc" /\ CallerStep) =>
               /\ broker' = broker
               /\ desired' = desired
               /\ IF connect_rc = 0 THEN callerpc' = "s_snap"
                  ELSE callerpc' = "idle" /\ callerop' = "none"
        /\ (callerpc = "s_snap" /\ CallerStep) =>
               /\ DOMAIN desired # {}
               /\ items_caller' = desired
               /\ callerpc' = "s_issue"
        /\ (callerpc = "s_issue" /\ CallerStep) =>
               /\ callerpc' = "idle" /\ callerop' = "none"
               /\ link = "session" =>
                      \A t \in DOMAIN items_caller :
                          t \in DOMAIN broker' /\ broker'[t] = items_caller[t]
        /\ (callerop = "subscribe" /\ callerop' = "none") =>
               \/ callerpc = "s_issue"
               \/ callerpc = "s_chk_event" /\ ~connected_event
               \/ callerpc = "s_chk_rc" /\ connect_rc # 0
      ]_vars

\* C12 witness: a subscribe() call made in an established session is about to
\* hand the client the SUBSCRIBE of a topic the broker does not hold yet.
C12_Witness ==
    /\ callerpc = "s_issue"
    /\ link = "session"
    /\ netpc = "idle"
    /\ TopicB \in DOMAIN items_caller
    /\ TopicB \notin DOMAIN broker

\* the set of the elements of a sequence
Range(seq) == {seq[i] : i \in 1..Len(seq)}

\* C13: no step removes a topic from the desired set, and no step but the
\* recording of a subscribe() call changes the set; a subscribe() call adds its
\* non-empty stripped topics and stores the clamped qos of this call for each
\* of them, replacing an earlier qos, and leaves every other topic as it was.
C13_DesiredAccumulates ==
    [][ /\ \A t \in DOMAIN desired : t \in DOMAIN desired'
        /\ (desired' # desired) => (callerpc = "idle" /\ callerop' = "subscribe")
        /\ (callerpc = "idle" /\ callerop' = "subscribe") =>
               LET topics == sub_call'[1].topics
                   qos == sub_call'[1].qos
                   added == {Strip(t) : t \in {u \in Range(topics) : Strip(u) # <<>>}}
                   stored == IF qos < 0 THEN 0 ELSE IF qos > 2 THEN 2 ELSE qos
               IN  /\ added # {}
                   /\ DOMAIN desired' = DOMAIN desired \cup added
                   /\ \A t \in added : desired'[t] = stored
                   /\ \A t \in DOMAIN desired \ added : desired'[t] = desired[t]
      ]_vars

\* C13 witness: after a session, a disconnect and a connect() that raised, the
\* desired set still holds both topics, one of them at the qos of the last
\* subscribe() call.
C13_Witness ==
    /\ outcome = "timeout"
    /\ callerpc = "idle"
    /\ sessions = 2
    /\ sub_call = <<[topics |-> <<TopicA>>, qos |-> 3]>>
    /\ DOMAIN desired = {TopicA, TopicB}
    /\ desired[TopicA] = 2
    /\ desired[TopicB] = 0

\* C14: every qos stored in the desired set, held in a snapshot of it, or granted
\* by the broker for a SUBSCRIBE lies in 0..2, and the topics of the last
\* subscribe() call are stored at 0 for a requested qos below 0, at 2 for one
\* above 2, and at the requested qos otherwise.
C14_QosClamped ==
    /\ \A t \in DOMAIN desired : desired[t] \in 0..2
    /\ \A t \in DOMAIN items_caller : items_caller[t] \in 0..2
    /\ \A t \in DOMAIN items_net : items_net[t] \in 0..2
    /\ \A t \in DOMAIN broker : broker[t] \in 0..2
    /\ sub_call # <<>> =>
           \A i \in 1..Len(sub_call[1].topics) :
               LET t == Strip(sub_call[1].topics[i])
                   qos == sub_call[1].qos
               IN  t # <<>> =>
                       /\ t \in DOMAIN desired
                       /\ qos < 0 => desired[t] = 0
                       /\ qos > 2 => desired[t] = 2
                       /\ qos \in 0..2 => desired[t] = qos

\* C14 witness: the broker holds one topic subscribed with a requested qos of -1
\* at 0 and another subscribed with a requested qos of 3 at 2.
C14_Witness ==
    /\ link = "session"
    /\ callerpc = "idle"
    /\ sub_call = <<[topics |-> <<TopicB>>, qos |-> 3]>>
    /\ DOMAIN broker = {TopicA, TopicB}
    /\ broker[TopicA] = 0
    /\ broker[TopicB] = 2

(***************************************************************************)
(* Further properties of the dispatch (SpecDispatch).                      *)
(***************************************************************************)
\* the subtypes for which _on_message calls a signal store (lines 266-302)
RecognizedSubtypes == {<<"s", "t", "a", "t", "u", "s">>, <<"s", "t", "o", "r", "a", "g", "e">>, <<"s", "t", "a", "t", "i", "s", "t", "i", "c", "s">>}

\* the event a step of the dispatch works on: the one the step decodes when the
\* dispatch is idle, else the one being dispatched (<<>>: none)
EventOfStep == IF dpc = "idle" THEN last_event' ELSE last_event

SignalTablesUnchanged ==
    /\ device_status' = device_status
    /\ device_os_status' = device_os_status
    /\ device_storage_status' = device_storage_status
    /\ device_statistics' = device_statistics

\* C15 as stated: no step of the dispatch of a message whose subtype is not
\* status, storage or statistics changes a persisted table, dbo.devices included.
C15_UnknownSubtypeNeverPersisted ==
    [][ (EventOfStep # <<>> /\ EventOfStep[1].subtype \notin RecognizedSubtypes) =>
            /\ SignalTablesUnchanged
            /\ devices' = devices
      ]_vars

\* C15 as amended: no step of the dispatch of such a message changes a signal
\* table, and its last step logs the event; dbo.devices changes only in the
\* resolver's step and only when the event carries a non-empty serial number.
C15_UnknownSubtypeSignalsUntouched ==
    [][ (EventOfStep # <<>> /\ EventOfStep[1].subtype \notin RecognizedSubtypes) =>
            /\ SignalTablesUnchanged
            /\ (devices' # devices) =>
                   /\ dpc = "idle"
                   /\ Strip(OrEmpty(EventOfStep[1].serial_number)) # <<>>
            /\ (dpc = "log") => logged' \in {"keys", "unparsed"}
      ]_vars

\* C15 witness: a message with subtype status/x carrying a serial number and a
\* status was logged; it left a device row and no signal row.
C15_Witness ==
    /\ dpc = "idle"
    /\ delivered = 1
    /\ last_event # <<>>
    /\ last_event[1].subtype = <<"s", "t", "a", "t", "u", "s", "/", "x">>
    /\ IsMapping(last_event[1].payload)
    /\ Get(last_event[1].payload, "device_status") # JNone
    /\ logged = "keys"
    /\ Len(devices) = 1
    /\ device_status = <<>>
    /\ device_os_status = <<>>
    /\ device_storage_status = <<>>
    /\ device_statistics = <<>>

(***************************************************************************)
(* Properties of the signal stores called on their own (SpecStores).       *)
(***************************************************************************)
\* a step that is a call to the store named
StoreStep(store) == store_call' # store_call /\ store_call'[1].store = store

\* the event the call of this step was handed
StepEvent == store_call'[1].event

\* the event has the subtype named and an object payload with an object under key
ObjectField(event, subtype, key) ==
    /\ event.subtype = subtype
    /\ IsMapping(event.payload)
    /\ IsMapping(Get(event.payload, key))

\* the storage and statistics halves of C16, and each store leaving the tables
\* of the other stores alone
C16_OtherStoresFrame ==
    /\ (StoreStep("storage") /\ device_storage_status' # device_storage_status) =>
           ObjectField(StepEvent, <<"s", "t", "o", "r", "a", "g", "e">>, "storage")
    /\ (StoreStep("statistics") /\ device_statistics' # device_statistics) =>
           ObjectField(StepEvent, <<"s", "t", "a", "t", "i", "s", "t", "i", "c", "s">>, "statistics")
    /\ StoreStep("status") =>
           UNCHANGED <<device_os_status, device_storage_status, device_statistics>>
    /\ StoreStep("storage") =>
           UNCHANGED <<device_status, device_os_status, device_statistics>>
    /\ StoreStep("statistics") =>
           UNCHANGED <<device_status, device_os_status, device_storage_status>>

\* C16 as stated: a call changes the store's table only if the event has the
\* store's subtype exactly and the payload carries the required field; for the
\* status store, a device_status equal to online or offline up to case.
C16_StoresIgnoreUnlessExact ==
    [][ /\ (StoreStep("status") /\ device_status' # device_status) =>
               /\ StepEvent.subtype = <<"s", "t", "a", "t", "u", "s">>
               /\ IsMapping(StepEvent.payload)
               /\ Get(StepEvent.payload, "device_status").t = "str"
               /\ Lower(Get(StepEvent.payload, "device_status").v)
                      \in {<<"o", "n", "l", "i", "n", "e">>, <<"o", "f", "f", "l", "i", "n", "e">>}
        /\ C16_OtherStoresFrame
      ]_vars

\* C16 as amended: the same, the device_status being compared after its
\* surrounding whitespace is trimmed as well.
C16_StoresIgnoreUnlessAccepted ==
    [][ /\ (StoreStep("status") /\ device_status' # device_status) =>
               /\ StepEvent.subtype = <<"s", "t", "a", "t", "u", "s">>
               /\ IsMapping(StepEvent.payload)
               /\ Get(StepEvent.payload, "device_status").t = "str"
               /\ Lower(Strip(Get(StepEvent.payload, "device_status").v))
                      \in {<<"o", "n", "l", "i", "n", "e">>, <<"o", "f", "f", "l", "i", "n", "e">>}
        /\ C16_OtherStoresFrame
      ]_vars

\* C16 witness: after a status row was written, the status store was handed an
\* event of subtype Status that reports online, and skipped it.
C16_Witness ==
    /\ store_call # <<>>
    /\ store_call[1].n = 2
    /\ store_call[1].store = "status"
    /\ store_call[1].event.subtype = <<"S", "t", "a", "t", "u", "s">>
    /\ IsMapping(store_call[1].event.payload)
    /\ Get(store_call[1].event.payload, "device_status") = JStr(<<"o", "n", "l", "i", "n", "e">>)
    /\ store_call[1].res = "skipped"
    /\ Len(device_status) = 1
    /\ device_status[1].device_id = store_call[1].device_id
    /\ device_status[1].status = <<"o", "f", "f", "l", "i", "n", "e">>

\* the rows of a table that belong to a device
RowsOfDevice(tbl, device_id) == {i \in 1..Len(tbl) : tbl[i].device_id = device_id}

\* the device_os_version a status packet carries, trimmed (<<>>: it carries none,
\* an empty or a whitespace-only one)
CarriedOsVersion(event) ==
    IF event.subtype = <<"s", "t", "a", "t", "u", "s">> /\ IsMapping(event.payload)
    THEN Strip(OrEmpty(SafeStr(Get(event.payload, "device_os_version"))))
    ELSE <<>>

\* the OS-version table after a call that wrote version for device_id: the
\* device has one row, which holds version, and the other rows are as they were
OsRowWritten(device_id, version) ==
    /\ \E i \in RowsOfDevice(device_os_status', device_id) :
           /\ RowsOfDevice(device_os_status', device_id) = {i}
           /\ device_os_status'[i].os_version = version
    /\ \A j \in 1..Len(device_os_status) :
           device_os_status[j].device_id # device_id =>
               device_os_status'[j] = device_os_status[j]
    /\ Len(device_os_status') =
           IF RowsOfDevice(device_os_status, device_id) = {}
           THEN Len(device_os_status) + 1 ELSE Len(device_os_status)

\* C17: a device never has more than one OS-version row; a call that returns
\* for a status packet carrying a non-empty device_os_version leaves the device's
\* row holding the trimmed version, and a call for a packet without the field, or
\* with an empty or whitespace-only one, leaves the table as it was - so the row
\* holds the version of the last packet that carried one.
C17_OsVersionLastWins ==
    /\ [](\A d \in DeviceIds : Cardinality(RowsOfDevice(device_os_status, d)) <= 1)
    /\ [][ StoreStep("os") =>
               IF store_call'[1].res # "raised" /\ CarriedOsVersion(StepEvent) # <<>>
               THEN OsRowWritten(store_call'[1].device_id, CarriedOsVersion(StepEvent))
               ELSE device_os_status' = device_os_status
         ]_vars

\* C17 witness: a status packet with a whitespace-only device_os_version came
\* after one that carried " W10 "; the row still holds W10.
C17_Witness ==
    /\ store_call # <<>>
    /\ store_call[1].n = 2
    /\ store_call[1].store = "os"
    /\ store_call[1].event.subtype = <<"s", "t", "a", "t", "u", "s">>
    /\ IsMapping(store_call[1].event.payload)
    /\ Get(store_call[1].event.payload, "device_os_version") = JStr(<<" ", " ">>)
    /\ store_call[1].res = "skipped"
    /\ Len(device_os_status) = 1
    /\ device_os_status[1].device_id = store_call[1].device_id
    /\ device_os_status[1].os_version = <<"W", "1", "0">>

\* the entries of the storage object of a packet (storage_map.items())
StorageEntries(event) == Get(event.payload, "storage").v

\* the keys of a packet that name a drive and hold an object
WritableKeys(entries) ==
    {k \in 1..Len(entries) :
        NormalizeDrive(entries[k].drive) # NoneStr /\ IsMapping(entries[k].info)}

\* the call of this step wrote the row of the drive for its device: the row
\* bears a modification time of this call
DriveWritten(device_id, drive) ==
    \E i \in 1..Len(device_storage_status') :
        /\ device_storage_status'[i].device_id = device_id
        /\ device_storage_status'[i].drive = drive
        /\ device_storage_status'[i].updated_at >= db_clock

\* C18: a call of the storage store for a storage packet in which no statement
\* fails returns, whatever keys of the packet do not normalize or hold no
\* object; when the call returns, every key that names a drive and holds an
\* object was written and the value returned is the number of those keys.
C18_InvalidDrivesSkipped ==
    [][ (StoreStep("storage") /\ ObjectField(StepEvent, <<"s", "t", "o", "r", "a", "g", "e">>, "storage")) =>
            /\ (store_call'[1].fault = 0) => store_call'[1].res = "returned"
            /\ (store_call'[1].res = "returned") =>
                   /\ store_call'[1].ret =
                          Cardinality(WritableKeys(StorageEntries(StepEvent)))
                   /\ \A k \in WritableKeys(StorageEntries(StepEvent)) :
                          DriveWritten(store_call'[1].device_id,
                                       NormalizeDrive(StorageEntries(StepEvent)[k].drive))
      ]_vars

\* C18 witness: the packet with keys c:, CC, D (no object) and C:\ was handled;
\* the call returned 2 and the row of drive C holds the values of the key C:\,
\* which comes after the two keys passed over.
C18_Witness ==
    /\ store_call # <<>>
    /\ store_call[1].store = "storage"
    /\ store_call[1].event.subtype = <<"s", "t", "o", "r", "a", "g", "e">>
    /\ IsMapping(store_call[1].event.payload)
    /\ Get(store_call[1].event.payload, "storage") = StorageObjectA
    /\ store_call[1].res = "returned"
    /\ store_call[1].ret = 2
    /\ Len(device_storage_status) = 1
    /\ device_storage_status[1].device_id = store_call[1].device_id
    /\ device_storage_status[1].drive = <<"C">>
    /\ device_storage_status[1].total_gb = 50

\* the keys of a packet whose upsert_drive call was made and returned, when the
\* fault-th upsert_drive call of the packet raises (0: none does)
ProcessedKeys(entries, fault) ==
    {k \in WritableKeys(entries) :
        fault = 0 \/ Cardinality({j \in WritableKeys(entries) : j <= k}) < fault}

\* the processed keys of a packet that name the drive
KeysOfDrive(entries, fault, drive) ==
    {k \in ProcessedKeys(entries, fault) : NormalizeDrive(entries[k].drive) = drive}

\* the last of a non-empty set of keys
LastKey(keys) == CHOOSE k \in keys : \A j \in keys : j <= k

\* the capacity columns of a row are the values of an entry
CapacityIs(row, info) ==
    /\ row.total_gb = SafeFloat(Get(info, "total_gb")).v
    /\ row.free_gb = SafeFloat(Get(info, "free_gb")).v
    /\ row.used_gb = SafeFloat(Get(info, "used_gb")).v
    /\ row.usage_percent = SafeFloat(Get(info, "used_pct")).v

\* the rows of a table for a device and a drive
RowsOfDrive(tbl, device_id, drive) ==
    {i \in 1..Len(tbl) : tbl[i].device_id = device_id /\ tbl[i].drive = drive}

\* dbo.device_storage_status after a call for device_id that processed the
\* entries with the fault given: a drive that a processed key names has one row,
\* which holds the capacity of the last such key; every other row is as it was
StorageRowsAfter(device_id, entries, fault) ==
    /\ \A i \in 1..Len(device_storage_status') :
           LET row == device_storage_status'[i]
               keys == IF row.device_id = device_id
                       THEN KeysOfDrive(entries, fault, row.drive) ELSE {}
           IN  IF keys # {}
               THEN CapacityIs(row, entries[LastKey(keys)].info)
               ELSE i <= Len(device_storage_status) /\ row = device_storage_status[i]
    /\ \A k \in ProcessedKeys(entries, fault) :
           RowsOfDrive(device_storage_status', device_id,
                       NormalizeDrive(entries[k].drive)) # {}
    /\ Len(device_storage_status') >= Len(device_storage_status)

\* C19: the storage table never holds two rows for a device and a drive letter;
\* after a call for a storage packet the row of every drive the call processed
\* holds the capacity fields of the packet's last processed key that normalizes
\* to that letter, and every other row is unchanged - so each row holds the
\* fields of the entry processed last for its drive.
C19_OneRowPerDriveLastWins ==
    /\ [](\A i, j \in 1..Len(device_storage_status) :
              (/\ device_storage_status[i].device_id = device_storage_status[j].device_id
               /\ device_storage_status[i].drive = device_storage_status[j].drive)
              => i = j)
    /\ [][ StoreStep("storage") =>
               IF ObjectField(StepEvent, <<"s", "t", "o", "r", "a", "g", "e">>, "storage")
               THEN StorageRowsAfter(store_call'[1].device_id, StorageEntries(StepEvent),
                                     store_call'[1].fault)
               ELSE device_storage_status' = device_storage_status
         ]_vars

\* C19 witness: drive C of a device had a row from an earlier packet; the
\* packet with the keys c: (total 100, 40 percent) and C:\ (total 50, free 20)
\* came and C:\ was written last: the one row of C holds total 50, free 20 and
\* no percent.
C19_Witness ==
    /\ store_call # <<>>
    /\ store_call[1].n = 2
    /\ store_call[1].store = "storage"
    /\ IsMapping(store_call[1].event.payload)
    /\ Get(store_call[1].event.payload, "storage") = StorageObjectA
    /\ store_call[1].fault = 0
    /\ Len(device_storage_status) = 1
    /\ device_storage_status[1].drive = <<"C">>
    /\ device_storage_status[1].total_gb = 50
    /\ device_storage_status[1].free_gb = 20
    /\ device_storage_status[1].usage_percent = NoneInt
    /\ device_storage_status[1].created_at + 2 < device_storage_status[1].updated_at

(***************************************************************************)
(* Properties of _normalize_drive (SpecNormalizeDrive).                    *)
(***************************************************************************)
\* the letter, in upper case, that s is the lower- or upper-case form of
\* (<<>>: s is not one letter)
LetterOf(s) ==
    IF Len(s) = 1 /\ \E i \in 1..26 : s[1] \in {LowerCase[i], UpperCase[i]}
    THEN <<UpperCase[CHOOSE i \in 1..26 : s[1] \in {LowerCase[i], UpperCase[i]}]>>
    ELSE <<>>

\* C20: what _normalize_drive returned for the value it was handed is None or one
\* character of A..Z; for a single letter in either case, for a letter and a
\* colon, and for a letter, a colon and a backslash it is that letter in upper
\* case; for two letters without a colon and for a digit it is None.
C20_NormalizeDrive ==
    /\ \/ norm_result = NoneStr
       \/ Len(norm_result) = 1 /\ \E i \in 1..26 : norm_result[1] = UpperCase[i]
    /\ (LetterOf(norm_value) # <<>>) => norm_result = LetterOf(norm_value)
    /\ (/\ Len(norm_value) \in {2, 3}
        /\ LetterOf(<<norm_value[1]>>) # <<>>
        /\ norm_value[2] = ":"
        /\ Len(norm_value) = 3 => norm_value[3] = "\\")
       => norm_result = LetterOf(<<norm_value[1]>>)
    /\ (/\ Len(norm_value) = 2
        /\ LetterOf(<<norm_value[1]>>) # <<>>
        /\ LetterOf(<<norm_value[2]>>) # <<>>)
       => norm_result = NoneStr
    /\ (norm_value = <<"1">>) => norm_result = NoneStr

\* C20 witness: c:\ was normalized to C.
C20_Witness == norm_value = <<"c", ":", "\\">> /\ norm_result = <<"C">>

(***************************************************************************)
(* Properties of the resolver as the dispatch calls it (SpecDispatch).     *)
(***************************************************************************)
\* a step in which _on_message decodes a message into an event
DecodeStep == dpc = "idle" /\ delivered' # delivered /\ last_event' # <<>>

\* the event carries no serial number, an empty or a whitespace-only one
BlankSerial(event) == Strip(OrEmpty(event.serial_number)) = <<>>

\* C21: the resolver, handed an event whose serial number is absent, empty or
\* whitespace-only, returns None and leaves dbo.devices as it was; the first row
\* of dbo.devices appears in the step that resolves an event with a non-empty
\* serial number, and no row ever holds an empty serial number.
C21_NoSerialNoIdentity ==
    /\ [][ (DecodeStep /\ BlankSerial(last_event'[1])) =>
               /\ devices' = devices
               /\ next_device_id' = next_device_id
               /\ device_result' = NoneInt
               /\ invoked' = <<[store |-> "device", res |-> "skipped"]>>
         ]_vars
    /\ [][ (devices = <<>> /\ devices' # <<>>) =>
               DecodeStep /\ ~BlankSerial(last_event'[1])
         ]_vars
    /\ [](\A i \in 1..Len(devices) :
              devices[i].serial_number # <<>>
              /\ Strip(devices[i].serial_number) = devices[i].serial_number)

\* C21 witness: two messages were handled, the last with a whitespace-only
\* serial number; the resolver returned None and dbo.devices is still empty.
C21_Witness ==
    /\ dpc = "idle"
    /\ delivered = 2
    /\ last_event # <<>>
    /\ last_event[1].serial_number = <<" ", " ">>
    /\ device_result = NoneInt
    /\ devices = <<>>
    /\ logged = "status"

\* the resolver's call of this step returned a device
ResolvedStep == DecodeStep /\ invoked'[1].res \in {"inserted", "updated"}

\* the rows of dbo.devices after the step that hold the serial number of the
\* event of the step
RowsOfEvent ==
    {i \in 1..Len(devices') :
        devices'[i].serial_number = Strip(OrEmpty(last_event'[1].serial_number))}

\* C22 as stated: after a call of the resolver that returned, inserting or
\* updating, the row of the event's serial number holds the customer, location
\* and machine of the event.
C22_RowCarriesEventFields ==
    [][ ResolvedStep =>
            /\ RowsOfEvent # {}
            /\ \A i \in RowsOfEvent :
                   /\ devices'[i].customer = last_event'[1].customer
                   /\ devices'[i].location = last_event'[1].location
                   /\ devices'[i].machine_name = last_event'[1].machine
      ]_vars

\* C22 as amended: the row holds the customer, location and machine of the event
\* with their surrounding whitespace trimmed.
C22_RowCarriesTrimmedFields ==
    [][ ResolvedStep =>
            /\ RowsOfEvent # {}
            /\ \A i \in RowsOfEvent :
                   /\ devices'[i].customer = Strip(last_event'[1].customer)
                   /\ devices'[i].location = Strip(last_event'[1].location)
                   /\ devices'[i].machine_name = Strip(last_event'[1].machine)
                   /\ devices'[i].updated_at = db_clock
      ]_vars

\* C22 witness: a device first seen under customer c was seen again under
\* customer d, location " l"; the update left its row with d and l.
C22_Witness ==
    /\ dpc = "idle"
    /\ delivered = 2
    /\ last_event # <<>>
    /\ last_event[1].customer = <<"d">>
    /\ last_event[1].location = <<" ", "l">>
    /\ invoked[1] = [store |-> "device", res |-> "updated"]
    /\ Len(devices) = 1
    /\ devices[1].customer = <<"d">>
    /\ devices[1].location = <<"l">>
    /\ devices[1].created_at < devices[1].updated_at

(***************************************************************************)
(* Further properties of the resolver (SpecResolver).                      *)
(***************************************************************************)
\* C23: every step of the resolver keeps every existing row of dbo.devices in
\* place with its id, serial_number and created_at; a row changes in customer,
\* location, machine_name and updated_at only, and only for the serial number
\* of the writer that runs the UPDATE; ids are never reused.
C23_IdentityImmutable ==
    /\ [][ /\ Len(devices') >= Len(devices)
           /\ \A i \in 1..Len(devices) :
                  /\ devices'[i].id = devices[i].id
                  /\ devices'[i].serial_number = devices[i].serial_number
                  /\ devices'[i].created_at = devices[i].created_at
                  /\ (devices'[i] # devices[i]) =>
                         \E w \in Writers :
                             /\ wpc[w] = "update"
                             /\ wargs[w].serial_number = devices[i].serial_number
         ]_vars
    /\ [](\A i, j \in 1..Len(devices) : devices[i].id = devices[j].id => i = j)

\* C23 witness: a row inserted for machine m was updated to machine n by a later
\* call, which returned the row's id 1 with created = False.
C23_Witness ==
    /\ Len(devices) >= 1
    /\ devices[1].id = 1
    /\ devices[1].machine_name = <<"n">>
    /\ devices[1].created_at < devices[1].updated_at
    /\ \E w \in Writers :
           /\ wlast[w] # <<>>
           /\ wlast[w][1].res = [device_id |-> 1, created |-> FALSE]
           /\ wlast[w][1].args.serial_number = devices[1].serial_number

(***************************************************************************)
(* Properties of the decoder (SpecDecoder).                                *)
(***************************************************************************)
\* the non-empty segments of a topic, in order
NonEmptySegments(topic) == SelectSeq(SplitSlash(topic), LAMBDA p : p # <<>>)

\* the segments of the topic build_event was handed
CalledSegments == NonEmptySegments(decoder_msg[1].topic)

\* C24: for a topic with at least five non-empty segments build_event returned an
\* event whose prefix, customer, location and machine are the first four of them
\* and whose subtype is the others joined with a slash; for a topic with fewer
\* it returned None.
C24_TopicSegments ==
    (decoder_msg # <<>>) =>
        IF Len(CalledSegments) >= 5
        THEN /\ decoder_event # <<>>
             /\ decoder_event[1].prefix = CalledSegments[1]
             /\ decoder_event[1].customer = CalledSegments[2]
             /\ decoder_event[1].location = CalledSegments[3]
             /\ decoder_event[1].machine = CalledSegments[4]
             /\ decoder_event[1].subtype =
                    JoinSlash(SubSeq(CalledSegments, 5, Len(CalledSegments)))
        ELSE decoder_event = <<>>

\* C24 witness: the topic /a/bc/a/a/bc was decoded to prefix a, customer bc and
\* subtype bc.
C24_Witness ==
    /\ decoder_msg # <<>>
    /\ decoder_msg[1].topic = <<"/", "a", "/", "b", "c", "/", "a", "/", "a", "/", "b", "c">>
    /\ decoder_event # <<>>
    /\ decoder_event[1].prefix = <<"a">>
    /\ decoder_event[1].customer = <<"b", "c">>
    /\ decoder_event[1].subtype = <<"b", "c">>


\* the characters of a string after its n-th slash (the whole string for n = 0)
RECURSIVE AfterSlash(_, _)
AfterSlash(s, n) ==
    IF n = 0 \/ s = <<>> THEN s
    ELSE AfterSlash(Tail(s), IF Head(s) = "/" THEN n - 1 ELSE n)

\* the topic build_event was handed has no empty segment: it neither starts nor
\* ends with a slash and holds no two slashes in a row
NoEmptySegment(topic) == \A i \in 1..Len(SplitSlash(topic)) : SplitSlash(topic)[i] # <<>>

\* C25 as stated: for every topic build_event accepted, the subtype is what
\* follows the fourth slash of the topic string.
C25_SubtypeAfterFourthSlash ==
    (decoder_msg # <<>> /\ decoder_event # <<>>) =>
        decoder_event[1].subtype = AfterSlash(decoder_msg[1].topic, 4)

\* C25: for every accepted topic that has no empty segment, the subtype is what
\* follows the fourth slash of the topic string; for every accepted topic it is
\* what follows the fourth slash of the topic rebuilt from its non-empty segments.
C25_SubtypeAfterFourthSlashOfSegments ==
    (decoder_msg # <<>> /\ decoder_event # <<>>) =>
        /\ NoEmptySegment(decoder_msg[1].topic) =>
               decoder_event[1].subtype = AfterSlash(decoder_msg[1].topic, 4)
        /\ decoder_event[1].subtype = AfterSlash(JoinSlash(CalledSegments), 4)

\* C25 witness: the six-segment topic a/a/a/a/bc/a was decoded to subtype bc/a.
C25_Witness ==
    /\ decoder_msg # <<>>
    /\ decoder_msg[1].topic = <<"a", "/", "a", "/", "a", "/", "a", "/", "b", "c", "/", "a">>
    /\ decoder_event # <<>>
    /\ decoder_event[1].subtype = <<"b", "c", "/", "a">>


\* the body build_event was handed is empty, is no JSON, or is JSON that is no object
BodyIsNoObject ==
    \/ decoder_msg[1].payload.enc \in {"empty", "garbage"}
    \/ decoder_msg[1].payload.enc = "json" /\ decoder_msg[1].payload.v.t # "object"

\* C26: build_event returned None exactly for the topics with fewer than five
\* non-empty segments, whatever the body; for an accepted topic whose body is
\* empty, no JSON or no JSON object, the event has no payload, no serial number
\* and no timestamp.
C26_BodyNeverRejects ==
    (decoder_msg # <<>>) =>
        /\ (decoder_event = <<>>) <=> (Len(CalledSegments) < 5)
        /\ (decoder_event # <<>> /\ BodyIsNoObject) =>
               /\ decoder_event[1].payload = JNone
               /\ decoder_event[1].serial_number = NoneStr
               /\ decoder_event[1].ts_ms = NoneInt

\* C26 witness: a five-segment topic with a body that is JSON but no object
\* was decoded to an event without payload.
C26_Witness ==
    /\ decoder_msg # <<>>
    /\ decoder_msg[1].payload.enc = "json"
    /\ decoder_msg[1].payload.v.t # "object"
    /\ Len(CalledSegments) = 5
    /\ decoder_event # <<>>
    /\ decoder_event[1].payload = JNone


(***************************************************************************)
(* Properties of the delivery callback (SpecDispatch).                     *)
(***************************************************************************)
\* a step of _on_message that hands a message to build_event and gets None
RejectStep == dpc = "idle" /\ delivered' # delivered /\ last_event' = <<>>

\* C27: the step of _on_message for a message build_event rejects calls no
\* store (neither the resolver nor a signal store), changes no table, writes the
\* "[?]" line and returns to the client library without an exception, leaving
\* the network thread and the session as they were; a later message that is
\* accepted is handed to the resolver as if nothing had been dropped.
C27_RejectedMessageDropped ==
    /\ [][RejectStep =>
            /\ invoked' = <<>>
            /\ raised_in' = {}
            /\ device_result' = NoneInt
            /\ UNCHANGED <<devices, next_device_id, db_clock, statusVars, osVars,
                           storageVars, statisticsVars>>
            /\ logged' = "unmatched"
            /\ cb_outcome' = "returned"
            /\ dpc' = "idle"
            /\ UNCHANGED <<loop, link, netpc>>]_vars
    /\ [][(unmatched_lines > 0 /\ DecodeStep) =>
            /\ Len(invoked') = 1
            /\ invoked'[1].store = "device"
            /\ dpc' = "status"
            /\ cb_outcome' = "running"]_vars
    /\ [](unmatched_lines <= delivered)

\* C27 witness: the first message was dropped and the second, accepted, went
\* through the resolver (which inserted its row) and was logged.
C27_Witness ==
    /\ unmatched_lines = 1
    /\ delivered = 2
    /\ last_event # <<>>
    /\ invoked # <<>>
    /\ invoked[1] = [store |-> "device", res |-> "inserted"]
    /\ dpc = "idle"
    /\ cb_outcome = "returned"
    /\ loop = "running"


(***************************************************************************)
(* Properties of the database handles (SpecHandles).                       *)
(***************************************************************************)
\* C28: the handle a store caches is one MSSQLConnector.connect returned to
\* that very store, and no two stores cache the same handle; every store
\* operation that got a handle from _get_conn got one its own store had asked for.
C28_HandlesNotShared ==
    /\ \A s \in StoreSet :
          store_conn[s] # 0 =>
              /\ store_conn[s] \in 1..Len(db_handles)
              /\ db_handles[store_conn[s]].by = s
              /\ \A t \in StoreSet \ {s} : store_conn[t] # store_conn[s]
    /\ (conn_call # <<>> /\ conn_call[1].ret # 0) =>
          db_handles[conn_call[1].ret].by = conn_call[1].store

\* C28 witness: three stores hold a handle each at the same time, all three
\* open, after the last of them asked the shared connector for its own.
C28_Witness ==
    /\ store_conn["device"] # 0
    /\ store_conn["status"] # 0
    /\ store_conn["statistics"] # 0
    /\ \A s \in {"device", "status", "statistics"} :
          db_handles[store_conn[s]].status = "open"
    /\ conn_call # <<>>
    /\ conn_call[1].path = "first"
    /\ conn_call[1].outcome = "ran"


\* the handles a store asked for that are open
OpenHandlesOf(s) ==
    {h \in 1..Len(db_handles) : db_handles[h].by = s /\ db_handles[h].status = "open"}

\* C29: a store has no handle until an operation of its own asks for one, and
\* keeps the one it got; an operation that finds a cached handle probes it,
\* returns it when the probe passes, and when the probe fails hands it to
\* close(), asks the connector for a new one and runs on that one; apart from
\* the shutdown, self._conn changes in no other step; the open handles a store
\* asked for are at most one, the cached one.
C29_LazyProbedHandle ==
    /\ [](db_handles = <<>> => \A s \in StoreSet : store_conn[s] = 0)
    /\ [](\A s \in StoreSet : OpenHandlesOf(s) \subseteq {store_conn[s]})
    /\ [][\A s \in StoreSet :
            store_conn'[s] # store_conn[s] =>
                \/ stopped' /\ ~stopped /\ store_conn'[s] = 0
                \/ /\ conn_call' # <<>>
                   /\ conn_call'[1].store = s
                   /\ conn_call'[1].cached = store_conn[s]
                   /\ conn_call'[1].path \in {"first", "replaced"}
                   /\ store_conn'[s] = conn_call'[1].ret]_vars
    /\ [](conn_call # <<>> =>
            /\ (conn_call[1].cached = 0) <=> (conn_call[1].path = "first")
            /\ (conn_call[1].cached = 0) <=> (conn_call[1].probe = "none")
            /\ conn_call[1].probe = "passed" =>
                   /\ conn_call[1].path = "reused"
                   /\ conn_call[1].ret = conn_call[1].cached
                   /\ conn_call[1].closing = "none"
            /\ conn_call[1].probe = "failed" =>
                   /\ conn_call[1].path = "replaced"
                   /\ conn_call[1].closing \in {"closed", "raised"}
                   /\ db_handles[conn_call[1].cached].status # "open"
                   /\ conn_call[1].closing = "closed" =>
                          db_handles[conn_call[1].cached].status = "closed"
                   /\ conn_call[1].ret # conn_call[1].cached
                   /\ conn_call[1].ret # 0 => conn_call[1].outcome = "ran"
            /\ conn_call[1].ret = 0 <=> conn_call[1].outcome = "connect_raised"
            /\ ~stopped => store_conn[conn_call[1].store] = conn_call[1].ret)

\* C29 witness: an operation found its cached handle broken, closed it, got a
\* new handle and ran on it; the store's only open handle is the new one.
C29_Witness ==
    /\ conn_call # <<>>
    /\ conn_call[1].path = "replaced"
    /\ conn_call[1].probe = "failed"
    /\ conn_call[1].closing = "closed"
    /\ conn_call[1].outcome = "ran"
    /\ db_handles[conn_call[1].cached].status = "closed"
    /\ OpenHandlesOf(conn_call[1].store) = {conn_call[1].ret}
    /\ store_conn[conn_call[1].store] = conn_call[1].ret


\* the order of the statements of _on_message after build_event
CallbackOrder ==
    {<<"idle", "status">>, <<"status", "os">>, <<"os", "storage">>,
     <<"storage", "statistics">>, <<"statistics", "log">>, <<"log", "idle">>}

\* the rows of the new device table that the step wrote
WrittenDeviceRows ==
    {i \in 1..Len(devices') : i > Len(devices) \/ devices'[i] # devices[i]}

\* C30: a message is taken up only when the callback of the one before has
\* ended; the callback goes through its statements in the one order resolve,
\* status, OS version, storage, statistics, log; a table is written only by the
\* statement of its store, for the message in hand; and every row the resolver
\* writes is stamped later than every row written for an earlier message.
C30_OneMessageAtATime ==
    /\ [][delivered' # delivered =>
            /\ dpc = "idle"
            /\ cb_outcome # "running"
            /\ delivered' = delivered + 1]_vars
    /\ [][dpc' # dpc => <<dpc, dpc'>> \in CallbackOrder]_vars
    /\ []((cb_outcome = "running") <=> (dpc # "idle"))
    /\ [][dpc # "idle" => delivered' = delivered /\ last_event' = last_event]_vars
    /\ [][/\ devices' # devices => delivered' # delivered
          /\ device_status' # device_status => dpc = "status"
          /\ device_os_status' # device_os_status => dpc = "os"
          /\ device_storage_status' # device_storage_status => dpc = "storage"
          /\ device_statistics' # device_statistics => dpc = "statistics"]_vars
    /\ [](\A i, j \in 1..Len(invoked) :
            i < j => StoreRank(invoked[i].store) < StoreRank(invoked[j].store))
    /\ [][\A i \in WrittenDeviceRows : \A j \in 1..Len(devices) :
            devices'[i].updated_at > devices[j].updated_at]_vars

\* C30 witness: two messages were delivered and handled to the end; the row of
\* the first was written before the row of the second, and the second went
\* through the resolver and a signal store.
C30_Witness ==
    /\ delivered = 2
    /\ dpc = "idle"
    /\ cb_outcome = "returned"
    /\ unmatched_lines = 0
    /\ Len(devices) = 2
    /\ devices[1].updated_at < devices[2].updated_at
    /\ Len(invoked) = 2
    /\ invoked[1].store = "device"
    /\ invoked[2].res \in {"inserted", "updated"}


(***************************************************************************)
(* Properties of the subscriptions mutex (SpecLock).                       *)
(***************************************************************************)
\* the statements inside a with-block of the mutex
InsideLock == {"s_write", "s_rel", "d_read", "d_rel"}

\* the statements at which a thread waits for the mutex
AtAcquire == {"s_acq", "d_acq"}

\* C31: a thread inside one of the two with-blocks holds the mutex, so the two
\* threads are never inside at once; the desired-subscription set is written and
\* read only by the holder; a thread sending SUBSCRIBE does not hold it; the
\* holder never waits for the mutex, and a thread that waits for it gets it.
C31_SetUnderMutex ==
    /\ [](\A t \in LockThreads : lk_pc[t] \in InsideLock => lock_owner = t)
    /\ [](~(lk_pc["caller"] \in InsideLock /\ lk_pc["net"] \in InsideLock))
    /\ [][desired' # desired =>
            lock_owner = "caller" /\ lk_pc["caller"] = "s_write"]_vars
    /\ [][\A t \in LockThreads :
            (lk_pc[t] = "d_read" /\ lk_pc'[t] = "d_rel") =>
                /\ lock_owner = t
                /\ ItemsOf(t)' = desired]_vars
    /\ [](\A t \in LockThreads : lk_pc[t] \in {"d_send", "s_chk", "idle"} =>
            lock_owner # t)
    /\ [](\A t \in LockThreads : lock_owner = t => lk_pc[t] \notin AtAcquire)
    /\ \A t \in LockThreads : (lk_pc[t] \in AtAcquire) ~> (lock_owner = t)

\* C31 witness: the caller's subscribe() waits for the mutex while the reconnect
\* callback holds it and reads the set.
C31_Witness ==
    /\ lk_pc["caller"] = "s_acq"
    /\ lk_pc["net"] = "d_read"
    /\ lock_owner = "net"


(***************************************************************************)
(* Properties of the shutdown (SpecShutdown).                              *)
(***************************************************************************)
\* connector.disconnect() of the finally block has returned
DisconnectReturned == disconnecting /\ callerpc = "idle"

\* a step of _on_message: a message is taken up, or the callback goes on
DispatchStep == delivered' # delivered \/ dpc # "idle"

\* C32: the stores are closed only after connector.disconnect() has returned,
\* when the network thread has ended outside a callback; from the return of
\* disconnect() on no message is taken up and no table is written; so no step
\* of _on_message happens in or after the step that closes the handles, and
\* after it no store holds a handle and no handle is open.
C32_StopThenClose ==
    /\ [][(stopped' /\ ~stopped) =>
            /\ DisconnectReturned
            /\ loop = "stopped"
            /\ dpc = "idle"]_vars
    /\ [](DisconnectReturned => loop = "stopped" /\ dpc = "idle")
    /\ [][DisconnectReturned =>
            UNCHANGED <<dispatchVars, devices, device_status, device_os_status,
                        device_storage_status, device_statistics>>]_vars
    /\ [][DispatchStep => ~stopped /\ ~stopped']_vars
    /\ [](stopped =>
            /\ \A s \in StoreSet : store_conn[s] = 0
            /\ \A h \in 1..Len(db_handles) : db_handles[h].status # "open")

\* C32 witness: a message was handled while disconnect() was under way, the
\* session was then stopped, and the handles were closed after that.
C32_Witness ==
    /\ stopped
    /\ loop = "stopped"
    /\ link = "none"
    /\ delivered = 2
    /\ Len(devices) >= 1
    /\ \A h \in 1..Len(db_handles) : db_handles[h].status = "closed"


(***************************************************************************)
(* Further properties of the status store (SpecTimestamp, SpecStatus).     *)
(***************************************************************************)
\* the row of dbo.device_status of a device (<<>>: none)
StatusRowOf(device_id) == SelectByDeviceId(device_status, device_id)

\* C33: every status packet written carries, when its event has a ts, the
\* epoch second ts \div 1000 and the instant ts, whatever the clock showed,
\* and when its event has no ts, the clock reading of the call that wrote it;
\* the row of the device holds the timestamp of the last packet written for it.
C33_TimestampFromEventOrClock ==
    /\ \A i \in 1..Len(status_log) :
          IF status_log[i].ts_ms # NoneInt
          THEN /\ status_log[i].ts_epoch = status_log[i].ts_ms \div 1000
               /\ status_log[i].ts_datetime = status_log[i].ts_ms
          ELSE /\ status_log[i].ts_epoch = status_log[i].now \div 1000
               /\ status_log[i].ts_datetime = status_log[i].now
    /\ \A d \in DeviceIds :
          PacketsOf(d) # <<>> =>
              /\ StatusRowOf(d) # <<>>
              /\ StatusRowOf(d)[1].ts_epoch = PacketsOf(d)[Len(PacketsOf(d))].ts_epoch
              /\ StatusRowOf(d)[1].ts_datetime =
                     PacketsOf(d)[Len(PacketsOf(d))].ts_datetime

\* C33 witness: the same status without a ts was written twice for device 1, at
\* two clock readings, and got two timestamps; a packet with ts 1500 written in
\* between got epoch second 1 although the clock showed 7000.
C33_Witness ==
    /\ Len(status_log) = 3
    /\ \A i \in 1..3 : status_log[i].device_id = 1 /\ status_log[i].status = status_log[1].status
    /\ status_log[1].ts_ms = NoneInt
    /\ status_log[3].ts_ms = NoneInt
    /\ status_log[1].ts_datetime = 7000
    /\ status_log[3].ts_datetime = 9000
    /\ status_log[2].ts_ms = 1500
    /\ status_log[2].now = 7000
    /\ status_log[2].ts_epoch = 1
    /\ StatusRowOf(1)[1].ts_datetime = 9000


(***************************************************************************)
(* Further properties of the statistics store (SpecStatistics).            *)
(***************************************************************************)
\* the payload sub-field each counter column is read from
CounterKeys ==
    [total_items |-> "total_items", no_read |-> "no_reads", good_read |-> "good_reads",
     no_dimension |-> "no_dimensions", no_weight |-> "no_weight", data_sent |-> "sent",
     not_sent |-> "not_sent", item_out_of_spec |-> "out_of_spec",
     more_than_1_item |-> "more_than_one_item", image_sent |-> "image_sent",
     image_not_sent |-> "image_not_sent"]

\* a counter column against the sub-field it was read from
CounterMatches(counter, field) ==
    /\ counter \in Int
    /\ counter # NoneInt
    /\ field.t = "int" => counter = field.v
    /\ field.t = "bool" => counter = IF field.v THEN 1 ELSE 0
    /\ field.t = "str" =>
          counter = IF ParseInt(field.v) = NoneInt THEN 0 ELSE ParseInt(field.v)
    /\ field.t \notin {"int", "bool", "str"} => counter = 0

\* C34: the row of every statistics packet whose INSERT was executed has
\* exactly the eleven counter columns, each the integer of the sub-field it is
\* read from (an int as it is, a bool as 1 or 0, a numeric string parsed), each
\* zero where the sub-field is missing, null or not convertible, none null.
C34_CountersIntegerOrZero ==
    /\ Len(device_statistics) = Len(InsertedPackets)
    /\ \A i \in 1..Len(device_statistics) :
          /\ DOMAIN device_statistics[i].counters = DOMAIN CounterKeys
          /\ \A col \in DOMAIN CounterKeys :
                CounterMatches(device_statistics[i].counters[col],
                               Get(InsertedPackets[i].stats, CounterKeys[col]))

\* C34 witness: a row of a packet with an int, a numeric string, a bool, a text,
\* a null, a negative numeric string, an object and four missing sub-fields,
\* and a row of a packet whose only sub-field is null.
C34_Witness ==
    /\ Len(device_statistics) = 2
    /\ stats_res = "inserted"
    /\ device_statistics[1].counters =
          [total_items |-> 5, no_read |-> 1, good_read |-> 4, no_dimension |-> 0,
           no_weight |-> 0, data_sent |-> 0, not_sent |-> 0, item_out_of_spec |-> 0 - 3,
           more_than_1_item |-> 0, image_sent |-> 0, image_not_sent |-> 0]
    /\ DOMAIN InsertedPackets[1].stats.v =
          {"total_items", "good_reads", "no_reads", "sent", "not_sent", "out_of_spec",
           "image_sent"}
    /\ InsertedPackets[2].stats = JObj([total_items |-> JNone])
    /\ \A col \in DOMAIN CounterKeys : device_statistics[2].counters[col] = 0


(***************************************************************************)
(* Properties of the gating of the signal stores (SpecGating).             *)
(***************************************************************************)
\* the signal stores the dispatch called for the message at hand
InvokedSignalStores == {invoked[i].store : i \in 1..Len(invoked)} \cap SignalStores

\* a signal store is called only after the resolver, configured, handed back
\* an identity for the message at hand
GatedInvocation ==
    InvokedSignalStores # {} =>
        /\ "device" \in configured
        /\ InvokedSignalStores \subseteq configured
        /\ Resolved
        /\ invoked[1].store = "device"
        /\ invoked[1].res \in {"inserted", "updated"}

\* while a message without identity is dispatched no signal table changes
UnresolvedWritesNothing ==
    [][(EventOfStep # <<>> /\ device_result' = NoneInt) => SignalTablesUnchanged]_vars

\* the gate alone: invocation and writes
SignalStoresGated == []GatedInvocation /\ UnresolvedWritesNothing

\* the dispatch of a message that got no identity has ended
UnresolvedDone == dpc = "idle" /\ last_event # <<>> /\ ~Resolved

\* C35: a signal store is invoked only after the resolver returned an identity
\* for the same message; a message whose event has no serial number, or that
\* meets no resolver, or whose resolver raised, reaches no signal store, and
\* its log line is written, the callback returns and the network loop runs on.
C35_GatedAndStillLogged ==
    /\ GatedInvocation
    /\ UnresolvedDone =>
          /\ InvokedSignalStores = {}
          /\ logged \notin {"none", "nothing"}
          /\ cb_outcome = "returned"
          /\ loop = "running"

\* the three ways to no identity, each with its log line written
NoSerialLogged ==
    /\ UnresolvedDone /\ configured = StoreSet
    /\ invoked = <<[store |-> "device", res |-> "skipped"]>>
    /\ last_event[1].subtype = <<"s", "t", "a", "t", "u", "s">>
    /\ logged = "status"

NoResolverLogged ==
    /\ UnresolvedDone /\ configured = StoreSet \ {"device"}
    /\ invoked = <<>>
    /\ last_event[1].serial_number = <<"S", "1">>
    /\ last_event[1].subtype = <<"s", "t", "a", "t", "i", "s", "t", "i", "c", "s">>
    /\ logged = "statistics"

ResolverRaisedLogged ==
    /\ UnresolvedDone /\ configured = StoreSet
    /\ invoked = <<[store |-> "device", res |-> "raised"]>>
    /\ last_event[1].subtype = <<"s", "t", "o", "r", "a", "g", "e">>
    /\ logged = "storage"


(***************************************************************************)
(* Referential integrity of the signal tables (SpecDispatch).              *)
(***************************************************************************)
\* the ids of the rows of dbo.devices
DeviceRowIds == {devices[i].id : i \in 1..Len(devices)}

\* the device ids the rows of a signal table refer to
ReferencedIds(tbl) == {tbl[i].device_id : i \in 1..Len(tbl)}

\* C36: the device id of every status, OS-version, storage and statistics row
\* is the id of a row of the device table, and a signal store called for the
\* message at hand was called after the resolver handed back that message's
\* identity, which is the id of such a row.
C36_SignalRowsReferToDevices ==
    /\ ReferencedIds(device_status) \subseteq DeviceRowIds
    /\ ReferencedIds(device_os_status) \subseteq DeviceRowIds
    /\ ReferencedIds(device_storage_status) \subseteq DeviceRowIds
    /\ ReferencedIds(device_statistics) \subseteq DeviceRowIds
    /\ (\E i \in 1..Len(invoked) : invoked[i].store \in SignalStores) =>
          /\ invoked[1].store = "device"
          /\ device_result \in DeviceRowIds

\* C36 witness: two devices; a status and an OS-version row of the one, a
\* storage row of the other.
C36_Witness ==
    /\ dpc = "idle"
    /\ Cardinality(DeviceRowIds) = 2
    /\ ReferencedIds(device_status) = {1}
    /\ ReferencedIds(device_os_status) = {1}
    /\ ReferencedIds(device_storage_status) = {2}


(***************************************************************************)
(* Further properties of the device identity resolver (SpecResolver).      *)
(***************************************************************************)
\* the calls that returned an identity, by their place in wreturns
ReturnedFor(serial_number) ==
    {i \in 1..Len(wreturns) : /\ wreturns[i].serial_number = serial_number
                              /\ wreturns[i].outcome # "raised"}

\* only writer w has entered upsert_device so far
OnlyWriter(w) ==
    /\ \A i \in 1..Len(wreturns) : wreturns[i].w = w
    /\ \A v \in Writers \ {w} : wpc[v] = "idle"

\* C37: of the calls that returned for one serial number at most one returned
\* created = true; while a single writer has called, that call is the first one
\* that returned an identity for the serial; a call whose INSERT failed never
\* returns created = true.
C37_CreatedAtMostOnce ==
    /\ \A i, j \in 1..Len(wreturns) :
          (/\ wreturns[i].outcome = "created"
           /\ wreturns[j].outcome = "created"
           /\ wreturns[i].serial_number = wreturns[j].serial_number) => i = j
    /\ \A w \in Writers :
          OnlyWriter(w) =>
              \A i \in 1..Len(wreturns) :
                  wreturns[i].outcome = "created" <=>
                      /\ i \in ReturnedFor(wreturns[i].serial_number)
                      /\ \A j \in ReturnedFor(wreturns[i].serial_number) : i <= j
    /\ \A i \in 1..Len(wreturns) :
          wreturns[i].insert_failed => wreturns[i].outcome # "created"

\* C37 witness: two writers raced for serial S1 without any transient fault; the
\* one returned created = true, the other, whose INSERT failed on the unique
\* index, returned created = false, and so did a later call for the serial.
C37_Witness ==
    /\ db_faults = 0
    /\ Len(wreturns) = 3
    /\ \A i \in 1..3 : wreturns[i].serial_number = SerialS1
    /\ \E i, j, k \in 1..3 :
          /\ wreturns[i].outcome = "created"
          /\ wreturns[j].outcome = "existing"
          /\ wreturns[j].insert_failed
          /\ wreturns[j].w # wreturns[i].w
          /\ k > i /\ k > j
          /\ wreturns[k].outcome = "existing"
          /\ ~wreturns[k].insert_failed


(***************************************************************************)
(* The storage store failing within a packet (SpecStores).                 *)
(***************************************************************************)
\* the drives named by a set of keys of a packet
DrivesOfKeys(entries, keys) == {NormalizeDrive(entries[k].drive) : k \in keys}

\* the call of this step, whose fail_at-th upsert_drive raised, wrote the
\* drives before it and left the rows of the others as they were
WrittenUpTo(device_id, entries, fail_at) ==
    /\ StorageRowsAfter(device_id, entries, fail_at)
    /\ \A drive \in DrivesOfKeys(entries, ProcessedKeys(entries, fail_at)) :
           DriveWritten(device_id, drive)
    /\ \A drive \in DrivesOfKeys(entries, WritableKeys(entries)) \
                        DrivesOfKeys(entries, ProcessedKeys(entries, fail_at)) :
           /\ RowsOfDrive(device_storage_status', device_id, drive) =
                  RowsOfDrive(device_storage_status, device_id, drive)
           /\ \A i \in RowsOfDrive(device_storage_status, device_id, drive) :
                  device_storage_status'[i] = device_storage_status[i]

\* C38: a call of the storage store in which the write of a drive raises ends
\* with that exception and hands back no count; the drives of the packet
\* iterated before that drive were written by the call, the row of that drive
\* and of every drive after it in the packet is as it was before the call.
C38_PartialStorageWrite ==
    [][ (/\ StoreStep("storage")
         /\ ObjectField(StepEvent, <<"s", "t", "o", "r", "a", "g", "e">>, "storage")
         /\ store_call'[1].res = "raised") =>
            /\ store_call'[1].ret = NoneInt
            /\ store_call'[1].fault \in
                   1..Cardinality(WritableKeys(StorageEntries(StepEvent)))
            /\ WrittenUpTo(store_call'[1].device_id, StorageEntries(StepEvent),
                           store_call'[1].fault)
      ]_vars

\* C38 witness: the packet with the drives d, e:\ and F raised at e:\ in the
\* first call: the row of D is written, E and F have no row and no count came
\* back.
C38_Witness ==
    /\ store_call # <<>>
    /\ store_call[1].n = 1
    /\ store_call[1].store = "storage"
    /\ IsMapping(store_call[1].event.payload)
    /\ Get(store_call[1].event.payload, "storage") = StorageObjectB
    /\ store_call[1].res = "raised"
    /\ store_call[1].fault = 2
    /\ store_call[1].ret = NoneInt
    /\ Len(device_storage_status) = 1
    /\ device_storage_status[1].device_id = store_call[1].device_id
    /\ device_storage_status[1].drive = <<"D">>


\* C39: the row of a device in the status table holds the status, the epoch
\* second and the instant of the packet processed last for the device, whatever
\* the row held before; a device no packet was processed for has no row.
C39_LastProcessedPacketWins ==
    \A d \in DeviceIds :
        IF PacketsOf(d) = <<>> THEN StatusRowOf(d) = <<>>
        ELSE /\ StatusRowOf(d) # <<>>
             /\ StatusRowOf(d)[1].status = PacketsOf(d)[Len(PacketsOf(d))].status
             /\ StatusRowOf(d)[1].ts_epoch = PacketsOf(d)[Len(PacketsOf(d))].ts_epoch
             /\ StatusRowOf(d)[1].ts_datetime =
                    PacketsOf(d)[Len(PacketsOf(d))].ts_datetime

\* C39 witness: device 1 was online at ts 1500; then a packet of ts 0 saying
\* offline was processed: the row says offline at instant 0, epoch second 0.
C39_Witness ==
    /\ Len(PacketsOf(1)) = 2
    /\ PacketsOf(1)[1].status = <<"o", "n", "l", "i", "n", "e">>
    /\ PacketsOf(1)[1].ts_ms = 1500
    /\ PacketsOf(1)[2].status = <<"o", "f", "f", "l", "i", "n", "e">>
    /\ PacketsOf(1)[2].ts_ms = 0
    /\ StatusRowOf(1)[1].status = <<"o", "f", "f", "l", "i", "n", "e">>
    /\ StatusRowOf(1)[1].ts_datetime = 0
    /\ StatusRowOf(1)[1].ts_epoch = 0
    /\ StatusRowOf(1)[1].offline_since = 0


(***************************************************************************)
(* Further properties of subscribe() (SpecConn).                           *)
(***************************************************************************)
\* the stripped non-empty topics of the arguments of a subscribe() call
TopicsOfCall(call) == {Strip(t) : t \in {u \in Range(call.topics) : Strip(u) # <<>>}}

\* a subscribe() call is entered in this step: only that statement writes the
\* record of the call
SubscribeEntered == callerpc = "idle" /\ (sub_call' # sub_call \/ issued' # issued)

\* C40: a subscribe() call that reads the connector as connected hands the
\* client one SUBSCRIBE per topic of the desired set at its stored qos - the
\* topics of this call and every topic recorded before it - and in an
\* established session the broker then holds them all; a call whose topics
\* are all empty or blank leaves the desired set, the broker's subscriptions
\* and the caller where they were and hands the client no SUBSCRIBE.
C40_SubscribeIssuesWholeSet ==
    [][ /\ (callerpc = "s_issue" /\ CallerStep) =>
               /\ issued' = desired
               /\ TopicsOfCall(sub_call[1]) \subseteq DOMAIN issued'
               /\ link = "session" =>
                      \A t \in DOMAIN desired :
                          t \in DOMAIN broker' /\ broker'[t] = desired[t]
        /\ (callerpc # "s_issue" /\ issued' # issued) => issued' = EmptyDict
        /\ (SubscribeEntered /\ TopicsOfCall(sub_call'[1]) = {}) =>
               /\ desired' = desired
               /\ broker' = broker
               /\ callerpc' = "idle"
               /\ callerop' = "none"
               /\ issued' = EmptyDict
      ]_vars

\* C40 witness: in the first session, with TopicA subscribed at qos 1 before,
\* subscribe(TopicB, qos 3) returned having handed the client the SUBSCRIBE of
\* TopicA again next to the one of TopicB.
C40_Witness ==
    /\ callerpc = "idle"
    /\ sessions = 1
    /\ link = "session"
    /\ sub_call = <<[topics |-> <<TopicB>>, qos |-> 3]>>
    /\ DOMAIN issued = {TopicA, TopicB}
    /\ issued[TopicA] = 1
    /\ issued[TopicB] = 2
    /\ broker = issued

=============================================================================
